---- MODULE Spec2Model ----
(***************************************************************************)
(* HOFFMAN, a chess endgame tablebase builder (src/hoffman.c).             *)
(*                                                                         *)
(* The model follows main(): the movement table built by init_movements,   *)
(* the position codec, the per-entry operations on the table of four-byte  *)
(* entries, initialize_tablebase and the propagation loop.                 *)
(*                                                                         *)
(* A 64-bit vector is modelled as the set of its one-bits (a set of        *)
(* squares): & is \cap, | is \cup, bitvector[sq] is {sq}.                  *)
(*                                                                         *)
(* The source's board has 64 squares, six bits of an index per mobile.     *)
(* The operators take the number of bits per square, sb, as a parameter:   *)
(* the board has 2^sb squares in rows of Files(sb).  sb = SQUARE_BITS (6)  *)
(* is the source's 8 by 8 board; the table builds run on the board of      *)
(* SquareBits bits, the codec is also checked with six.                    *)
(***************************************************************************)
EXTENDS Integers, Sequences, FiniteSets, TLC

(***************************************************************************)
(* Bounds of the model.                                                    *)
(***************************************************************************)
\* bits of an index per mobile in the table builds (the source: 6)
SquareBits == 3
\* the largest mate-in count the modelled futurebase import injects
MaxFutureMate == 3

(***************************************************************************)
(* Constants of the program.                                               *)
(***************************************************************************)
SQUARE_BITS == 6
MAX_MOBILES == 8
STALEMATE_COUNT == 100
NUM_PIECES == 7
NUM_DIR == 8
NUM_MOVEMENTS == 7

WHITE_KING == 0
BLACK_KING == 1

KING == 0
QUEEN == 1
ROOK == 2
BISHOP == 3
KNIGHT == 4
PAWN == 5
PAWNep == 6

WHITE == 0
BLACK == 1

ILLEGAL_POSITION == 255
PTM_WINS_PROPAGATION_DONE == 254
PNTM_WINS_PROPAGATION_DONE == 253
PTM_WINS_PROPAGATION_NEEDED == 252
PNTM_WINS_PROPAGATION_NEEDED == 0
MAX_MOVECNT == 251

\* the range of an unsigned char, the type of the three fields of an entry
UCHAR == 256

(***************************************************************************)
(* Bit arithmetic on naturals.                                             *)
(***************************************************************************)
RECURSIVE Pow2(_)
Pow2(n) == IF n = 0 THEN 1 ELSE 2 * Pow2(n - 1)

RECURSIVE BitOr(_, _)
BitOr(a, b) ==
    IF a = 0 THEN b
    ELSE IF b = 0 THEN a
    ELSE (IF (a % 2 = 1) \/ (b % 2 = 1) THEN 1 ELSE 0) + 2 * BitOr(a \div 2, b \div 2)

\* Op applied to the value of v, evaluated once and shared by the uses Op makes of it
With(v, Op(_)) == CHOOSE result \in {Op(x) : x \in {v}} : TRUE

ShiftLeft(a, n) == a * Pow2(n)
ShiftRight(a, n) == a \div Pow2(n)

(***************************************************************************)
(* The board.                                                              *)
(***************************************************************************)
NUM_SQUARES(sb) == Pow2(sb)
Files(sb) == Pow2((sb + 1) \div 2)
Squares(sb) == 0 .. (NUM_SQUARES(sb) - 1)

bitvector(square) == {square}
allones_bitvector == 0 .. 63

(***************************************************************************)
(* The movement table.                                                     *)
(***************************************************************************)
number_of_movement_directions == <<8, 8, 4, 4, 8, 1, 1>>
maximum_movements_in_one_direction == <<1, 7, 7, 7, 1, 2, 1>>

movementdir ==
    << <<"RIGHT", "LEFT", "UP", "DOWN", "DIAG_UL", "DIAG_UR", "DIAG_DL", "DIAG_DR">>,
       <<"RIGHT", "LEFT", "UP", "DOWN", "DIAG_UL", "DIAG_UR", "DIAG_DL", "DIAG_DR">>,
       <<"RIGHT", "LEFT", "UP", "DOWN">>,
       <<"DIAG_UL", "DIAG_UR", "DIAG_DL", "DIAG_DR">>,
       <<"KNIGHTmove", "KNIGHTmove", "KNIGHTmove", "KNIGHTmove",
         "KNIGHTmove", "KNIGHTmove", "KNIGHTmove", "KNIGHTmove">>,
       <<"PAWNmove", "PAWN2move">>,
       <<"PAWNmove">> >>

RIGHT_MOVEMENT_POSSIBLE(sb, current_square) == (current_square % Files(sb)) < Files(sb) - 1
\* RIGHT2_MOVEMENT_POSSIBLE with the fault of asking for one file to the right
RIGHT2_MOVEMENT_POSSIBLE_one_file(sb, current_square) ==
    (current_square % Files(sb)) < Files(sb) - 1
RIGHT2_MOVEMENT_POSSIBLE(sb, current_square) == (current_square % Files(sb)) < Files(sb) - 2
\* LEFT_MOVEMENT_POSSIBLE with the fault of asking for two files to the left
LEFT_MOVEMENT_POSSIBLE_two_files(sb, current_square) == (current_square % Files(sb)) > 1
LEFT_MOVEMENT_POSSIBLE(sb, current_square) == (current_square % Files(sb)) > 0
LEFT2_MOVEMENT_POSSIBLE(sb, current_square) == (current_square % Files(sb)) > 1
UP_MOVEMENT_POSSIBLE(sb, current_square) == current_square < NUM_SQUARES(sb) - Files(sb)
UP2_MOVEMENT_POSSIBLE(sb, current_square) == current_square < NUM_SQUARES(sb) - 2 * Files(sb)
\* DOWN_MOVEMENT_POSSIBLE with the fault of asking for two ranks below
DOWN_MOVEMENT_POSSIBLE_two_ranks(sb, current_square) == current_square > 2 * Files(sb) - 1
DOWN_MOVEMENT_POSSIBLE(sb, current_square) == current_square > Files(sb) - 1
DOWN2_MOVEMENT_POSSIBLE(sb, current_square) == current_square > 2 * Files(sb) - 1

\* the edge test of one step of a sliding direction
MovementPossible(sb, d, current_square) ==
    CASE d = "RIGHT" -> RIGHT_MOVEMENT_POSSIBLE(sb, current_square)
      [] d = "LEFT" -> LEFT_MOVEMENT_POSSIBLE(sb, current_square)
      [] d = "UP" -> UP_MOVEMENT_POSSIBLE(sb, current_square)
      [] d = "DOWN" -> DOWN_MOVEMENT_POSSIBLE(sb, current_square)
      [] d = "DIAG_UL" -> LEFT_MOVEMENT_POSSIBLE(sb, current_square)
                          /\ UP_MOVEMENT_POSSIBLE(sb, current_square)
      [] d = "DIAG_UR" -> RIGHT_MOVEMENT_POSSIBLE(sb, current_square)
                          /\ UP_MOVEMENT_POSSIBLE(sb, current_square)
      [] d = "DIAG_DL" -> LEFT_MOVEMENT_POSSIBLE(sb, current_square)
                          /\ DOWN_MOVEMENT_POSSIBLE(sb, current_square)
      [] d = "DIAG_DR" -> RIGHT_MOVEMENT_POSSIBLE(sb, current_square)
                          /\ DOWN_MOVEMENT_POSSIBLE(sb, current_square)

\* MovementStep with the fault of a step up and to the left that leaves out the step to
\* the left
MovementStep_up_left_as_up(sb, d, current_square) ==
    CASE d = "RIGHT" -> current_square + 1
      [] d = "LEFT" -> current_square - 1
      [] d \in {"UP", "DIAG_UL"} -> current_square + Files(sb)
      [] d = "DOWN" -> current_square - Files(sb)
      [] d = "DIAG_UR" -> current_square + Files(sb) + 1
      [] d = "DIAG_DL" -> current_square - Files(sb) - 1
      [] d = "DIAG_DR" -> current_square - Files(sb) + 1

\* the square one step of a sliding direction leads to
MovementStep(sb, d, current_square) ==
    CASE d = "RIGHT" -> current_square + 1
      [] d = "LEFT" -> current_square - 1
      [] d = "UP" -> current_square + Files(sb)
      [] d = "DOWN" -> current_square - Files(sb)
      [] d = "DIAG_UL" -> current_square + Files(sb) - 1
      [] d = "DIAG_UR" -> current_square + Files(sb) + 1
      [] d = "DIAG_DL" -> current_square - Files(sb) - 1
      [] d = "DIAG_DR" -> current_square - Files(sb) + 1

\* the compound edge test of each of the knight's eight directions
KnightPossible(sb, dir, square) ==
    CASE dir = 0 -> RIGHT2_MOVEMENT_POSSIBLE(sb, square) /\ UP_MOVEMENT_POSSIBLE(sb, square)
      [] dir = 1 -> RIGHT2_MOVEMENT_POSSIBLE(sb, square) /\ DOWN_MOVEMENT_POSSIBLE(sb, square)
      [] dir = 2 -> LEFT2_MOVEMENT_POSSIBLE(sb, square) /\ UP_MOVEMENT_POSSIBLE(sb, square)
      [] dir = 3 -> LEFT2_MOVEMENT_POSSIBLE(sb, square) /\ DOWN_MOVEMENT_POSSIBLE(sb, square)
      [] dir = 4 -> RIGHT_MOVEMENT_POSSIBLE(sb, square) /\ UP2_MOVEMENT_POSSIBLE(sb, square)
      [] dir = 5 -> RIGHT_MOVEMENT_POSSIBLE(sb, square) /\ DOWN2_MOVEMENT_POSSIBLE(sb, square)
      [] dir = 6 -> LEFT_MOVEMENT_POSSIBLE(sb, square) /\ UP2_MOVEMENT_POSSIBLE(sb, square)
      [] dir = 7 -> LEFT_MOVEMENT_POSSIBLE(sb, square) /\ DOWN2_MOVEMENT_POSSIBLE(sb, square)

KnightSquare(sb, dir, square) ==
    CASE dir = 0 -> square + 2 + Files(sb)
      [] dir = 1 -> square + 2 - Files(sb)
      [] dir = 2 -> square - 2 + Files(sb)
      [] dir = 3 -> square - 2 - Files(sb)
      [] dir = 4 -> square + 1 + 2 * Files(sb)
      [] dir = 5 -> square + 1 - 2 * Files(sb)
      [] dir = 6 -> square - 1 + 2 * Files(sb)
      [] dir = 7 -> square - 1 - 2 * Files(sb)

\* struct movement; the array is a global, so an entry never written is all zero
Movement(square, vector) == [square |-> square, vector |-> vector]
SentinelMovement == Movement(-1, allones_bitvector)
ZeroMovement == Movement(0, {})

\* the entries mvmt, mvmt+1, ... of one direction of a sliding piece, as the loop over mvmt
\* writes them: a step while the edge test holds, the sentinel from then on
RECURSIVE SlidingEntries(_, _, _, _, _)
SlidingEntries(sb, d, current_square, mvmt, max) ==
    IF mvmt >= max THEN << >>
    ELSE IF MovementPossible(sb, d, current_square)
         THEN LET next == MovementStep(sb, d, current_square)
              IN  <<Movement(next, bitvector(next))>>
                  \o SlidingEntries(sb, d, next, mvmt + 1, max)
         ELSE <<SentinelMovement>> \o SlidingEntries(sb, d, current_square, mvmt + 1, max)

\* DirectionEntries with the fault of leaving out the sentinel written after the loop
\* over mvmt
DirectionEntries_without_last_sentinel(sb, piece, square, dir) ==
    LET d == movementdir[piece + 1][dir + 1]
        max == maximum_movements_in_one_direction[piece + 1]
        written ==
            CASE d = "KNIGHTmove" ->
                     IF KnightPossible(sb, dir, square)
                     THEN <<Movement(KnightSquare(sb, dir, square),
                                     bitvector(KnightSquare(sb, dir, square)))>>
                     ELSE <<SentinelMovement>>
              [] d \in {"PAWNmove", "PAWN2move"} -> [m \in 1 .. max |-> ZeroMovement]
              [] OTHER -> SlidingEntries(sb, d, square, 0, max)
    IN  [m \in 1 .. (NUM_MOVEMENTS + 1) |->
            IF m <= max THEN written[m]
            ELSE ZeroMovement]

\* movements[piece][square][dir] as init_movements leaves it: NUM_MOVEMENTS+1 entries,
\* numbered from 1 here (entry mvmt of the source is entry mvmt+1)
DirectionEntries(sb, piece, square, dir) ==
    LET d == movementdir[piece + 1][dir + 1]
        max == maximum_movements_in_one_direction[piece + 1]
        written ==
            CASE d = "KNIGHTmove" ->
                     IF KnightPossible(sb, dir, square)
                     THEN <<Movement(KnightSquare(sb, dir, square),
                                     bitvector(KnightSquare(sb, dir, square)))>>
                     ELSE <<SentinelMovement>>
              [] d \in {"PAWNmove", "PAWN2move"} -> [m \in 1 .. max |-> ZeroMovement]
              [] OTHER -> SlidingEntries(sb, d, square, 0, max)
    IN  [m \in 1 .. (NUM_MOVEMENTS + 1) |->
            IF m <= max THEN written[m]
            ELSE IF m = max + 1 THEN SentinelMovement
            ELSE ZeroMovement]

init_movements(sb) ==
    [piece \in 0 .. (NUM_PIECES - 1) |->
        [square \in Squares(sb) |->
            [dir \in 0 .. (number_of_movement_directions[piece + 1] - 1) |->
                DirectionEntries(sb, piece, square, dir)]]]

\* the global table, built once at startup
movements == init_movements(SquareBits)

\* the global table as the source builds it, on the board of 64 squares
movements_64 == init_movements(SQUARE_BITS)

(***************************************************************************)
(* The tablebase header and the position codec.                            *)
(***************************************************************************)
\* a tablebase header: the kind and colour of each mobile, numbered from 0
Tablebase(types, colors) ==
    [num_mobiles |-> Len(types),
     mobile_piece_type |-> [piece \in 0 .. (Len(types) - 1) |-> types[piece + 1]],
     mobile_piece_color |-> [piece \in 0 .. (Len(colors) - 1) |-> colors[piece + 1]]]

\* create_tablebase: K+Q vs K
create_tablebase == Tablebase(<<KING, KING, QUEEN>>, <<WHITE, BLACK, WHITE>>)

\* (2<<(6*tb->num_mobiles)) - 1; with the tablebases built here the value is far below
\* the 32 bits of int32
max_index(tb, sb) == ShiftLeft(2, sb * tb.num_mobiles) - 1

\* the number of entries create_tablebase allocates: 2 * NUM_SQUARES^num_mobiles
NumEntries(tb, sb) == 2 * Pow2(sb * tb.num_mobiles)

\* a position after bzero
ZeroPosition ==
    [board_vector |-> {}, white_vector |-> {}, black_vector |-> {}, side_to_move |-> 0,
     mobile_piece_position |-> [piece \in 0 .. (MAX_MOBILES - 1) |-> 0]]

RECURSIVE position_to_index_loop(_, _, _, _, _, _)
position_to_index_loop(tb, sb, pos, index, shift_count, piece) ==
    IF piece >= tb.num_mobiles THEN index
    ELSE position_to_index_loop(
             tb, sb, pos,
             BitOr(index, ShiftLeft(pos.mobile_piece_position[piece], shift_count)),
             shift_count + sb, piece + 1)

\* position_to_index with the fault of a shift count that starts at 0: the first square
\* lands on the bit of the side to move
position_to_index_from_bit_0(tb, sb, pos) ==
    position_to_index_loop(tb, sb, pos, pos.side_to_move, 0, 0)

position_to_index(tb, sb, pos) ==
    position_to_index_loop(tb, sb, pos, pos.side_to_move, 1, 0)

\* the loop of index_to_position from mobile `piece` on; [ok, p] is the returned boolean
\* and the position as the function leaves it
RECURSIVE index_to_position_loop(_, _, _, _, _)
index_to_position_loop(tb, sb, p, index, piece) ==
    IF piece >= tb.num_mobiles THEN [ok |-> TRUE, p |-> p]
    ELSE LET square == index % NUM_SQUARES(sb)
             placed == [p EXCEPT !.mobile_piece_position[piece] = square]
         IN  IF (p.board_vector \cap bitvector(square)) # {}
             THEN [ok |-> FALSE, p |-> placed]
             ELSE index_to_position_loop(
                      tb, sb,
                      [placed EXCEPT
                          !.board_vector = @ \cup bitvector(square),
                          !.white_vector =
                              IF tb.mobile_piece_color[piece] = WHITE
                              THEN @ \cup bitvector(square) ELSE @,
                          !.black_vector =
                              IF tb.mobile_piece_color[piece] = WHITE
                              THEN @ ELSE @ \cup bitvector(square)],
                      ShiftRight(index, sb), piece + 1)

\* index_to_position with the fault of a missing index >>= 1: the squares are read from
\* bit 0 on
index_to_position_from_bit_0(tb, sb, index) ==
    index_to_position_loop(tb, sb, [ZeroPosition EXCEPT !.side_to_move = index % 2], index, 0)

index_to_position(tb, sb, index) ==
    index_to_position_loop(tb, sb, [ZeroPosition EXCEPT !.side_to_move = index % 2],
                           ShiftRight(index, 1), 0)

(***************************************************************************)
(* The index in its own type, int32 (unsigned int, 32 bits), on the board  *)
(* of 64 squares.  A value of 32 bits is modelled as the set of its        *)
(* one-bits, bit 0 the lowest; an index as wide as it takes likewise.      *)
(***************************************************************************)
INT_BITS == 32

\* the one-bits of a square number
SquareBitsOf(square) == {b \in 0 .. (SQUARE_BITS - 1) : (square \div Pow2(b)) % 2 = 1}

\* E1 << E2 for an int E1 of one-bits `bits`.  Below the width of int the bits shifted out
\* at the top are lost.  At or above the width the behaviour is undefined; what a build
\* gives is either the shift by the count modulo the width (the count masked by the
\* shift instruction) or zero: shift_at_width says which
ShiftLeft_int(bits, count, shift_at_width) ==
    IF count < INT_BITS
    THEN {b + count : b \in bits} \cap (0 .. (INT_BITS - 1))
    ELSE IF shift_at_width = "masked"
         THEN {b + (count % INT_BITS) : b \in bits} \cap (0 .. (INT_BITS - 1))
         ELSE {}

\* the value less one, modulo 2^32
MinusOne_int(bits) ==
    IF bits = {} THEN 0 .. (INT_BITS - 1)
    ELSE LET low == CHOOSE b \in bits : \A c \in bits : b <= c
         IN  (bits \ {low}) \cup (0 .. (low - 1))

\* max_index in int32: (2<<(6*tb->num_mobiles)) - 1
max_index_int32(tb, shift_at_width) ==
    MinusOne_int(ShiftLeft_int({1}, SQUARE_BITS * tb.num_mobiles, shift_at_width))

\* the loop of position_to_index in int32: index |= position << shift_count
RECURSIVE position_to_index_int32_loop(_, _, _, _, _, _)
position_to_index_int32_loop(tb, pos, index, shift_count, piece, shift_at_width) ==
    IF piece >= tb.num_mobiles THEN index
    ELSE position_to_index_int32_loop(
             tb, pos,
             index \cup ShiftLeft_int(SquareBitsOf(pos.mobile_piece_position[piece]),
                                      shift_count, shift_at_width),
             shift_count + SQUARE_BITS, piece + 1, shift_at_width)

position_to_index_int32(tb, pos, shift_at_width) ==
    position_to_index_int32_loop(tb, pos, IF pos.side_to_move = BLACK THEN {0} ELSE {},
                                 1, 0, shift_at_width)

\* the index of a position with no limit of width: bit 0 the side to move, then six bits
\* for each mobile
index_of_position(tb, pos) ==
    (IF pos.side_to_move = BLACK THEN {0} ELSE {})
    \cup UNION {{1 + SQUARE_BITS * piece + b :
                    b \in SquareBitsOf(pos.mobile_piece_position[piece])} :
                piece \in 0 .. (tb.num_mobiles - 1)}

(***************************************************************************)
(* The per-entry operations.  e is the array tb->entries; each operation   *)
(* gives the array after the call.                                         *)
(***************************************************************************)
Entry(movecnt, mate_in_cnt, stalemate_cnt) ==
    [movecnt |-> movecnt % UCHAR, mate_in_cnt |-> mate_in_cnt % UCHAR,
     stalemate_cnt |-> stalemate_cnt % UCHAR]

\* an entry as calloc leaves it
ZeroEntry == Entry(0, 0, 0)

WHITE_TO_MOVE(index) == (index % 2) = WHITE
BLACK_TO_MOVE(index) == (index % 2) = BLACK

PTM_wins(e, index) ==
    e[index].movecnt \in {PTM_WINS_PROPAGATION_NEEDED, PTM_WINS_PROPAGATION_DONE}
PNTM_wins(e, index) ==
    e[index].movecnt \in {PNTM_WINS_PROPAGATION_NEEDED, PNTM_WINS_PROPAGATION_DONE}

does_white_win(e, index) ==
    IF WHITE_TO_MOVE(index) THEN PTM_wins(e, index) ELSE PNTM_wins(e, index)

does_black_win(e, index) ==
    IF BLACK_TO_MOVE(index) THEN PTM_wins(e, index) ELSE PNTM_wins(e, index)

needs_propagation(e, index) ==
    e[index].movecnt \in {PTM_WINS_PROPAGATION_NEEDED, PNTM_WINS_PROPAGATION_NEEDED}

\* mark_propagated with the fault of marking as well the entry of the same squares with
\* the other side to move
mark_propagated_both_sides(e, index) ==
    [i \in DOMAIN e |->
        IF i \in {index, IF index % 2 = 0 THEN index + 1 ELSE index - 1}
        THEN [e[i] EXCEPT !.movecnt =
                 IF @ = PTM_WINS_PROPAGATION_NEEDED THEN PTM_WINS_PROPAGATION_DONE
                 ELSE IF @ = PNTM_WINS_PROPAGATION_NEEDED THEN PNTM_WINS_PROPAGATION_DONE
                 ELSE @]
        ELSE e[i]]

\* mark_propagated with the fault of writing PTM_WINS_PROPAGATION_DONE in both branches
mark_propagated_as_player_to_move(e, index) ==
    IF e[index].movecnt \in {PTM_WINS_PROPAGATION_NEEDED, PNTM_WINS_PROPAGATION_NEEDED}
    THEN [e EXCEPT ![index].movecnt = PTM_WINS_PROPAGATION_DONE]
    ELSE e

\* mark_propagated with the fault of leaving the entry as it is
mark_propagated_nothing_marked(e, index) == e

mark_propagated(e, index) ==
    IF e[index].movecnt = PTM_WINS_PROPAGATION_NEEDED
    THEN [e EXCEPT ![index].movecnt = PTM_WINS_PROPAGATION_DONE]
    ELSE IF e[index].movecnt = PNTM_WINS_PROPAGATION_NEEDED
         THEN [e EXCEPT ![index].movecnt = PNTM_WINS_PROPAGATION_DONE]
         ELSE e

\* get_mate_in_count with the fault of reading two half-moves too many
get_mate_in_count_two_more(e, index) == e[index].mate_in_cnt + 2

get_mate_in_count(e, index) ==
    IF e[index].movecnt >= 1 /\ e[index].movecnt <= MAX_MOVECNT
    THEN -1
    ELSE e[index].mate_in_cnt

get_stalemate_count(e, index) == e[index].stalemate_cnt

\* white_wins and black_wins with the fault of no test for an entry already won: the
\* entry is written again
side_wins_again(e, index, mover, mate_in_count, stalemate_count) ==
    IF (index % 2) = mover
    THEN [e EXCEPT ![index] =
             Entry(PTM_WINS_PROPAGATION_NEEDED, mate_in_count, stalemate_count)]
    ELSE [e EXCEPT ![index] =
             Entry(PNTM_WINS_PROPAGATION_NEEDED, mate_in_count, stalemate_count)]

\* white_wins and black_wins: `mover` is the colour the function is named after
side_wins(e, index, mover, mate_in_count, stalemate_count) ==
    IF (index % 2) = mover
    THEN IF PTM_wins(e, index) \/ PNTM_wins(e, index)
         THEN e
         ELSE [e EXCEPT ![index] =
                  Entry(PTM_WINS_PROPAGATION_NEEDED, mate_in_count, stalemate_count)]
    ELSE IF PNTM_wins(e, index) \/ PTM_wins(e, index)
         THEN e
         ELSE [e EXCEPT ![index] =
                  Entry(PNTM_WINS_PROPAGATION_NEEDED, mate_in_count, stalemate_count)]

white_wins(e, index, mate_in_count, stalemate_count) ==
    side_wins(e, index, WHITE, mate_in_count, stalemate_count)

black_wins(e, index, mate_in_count, stalemate_count) ==
    side_wins(e, index, BLACK, mate_in_count, stalemate_count)

\* add_one_to_white_wins and add_one_to_black_wins with the fault of a movecnt that is
\* cleared, not decremented: one lost move makes the entry a win
add_one_to_side_wins_at_once(e, index, mover, mate_in_count, stalemate_count) ==
    IF (index % 2) = mover
    THEN e
    ELSE IF PTM_wins(e, index)
         THEN e
         ELSE IF e[index].movecnt = 0 \/ e[index].movecnt > MAX_MOVECNT
              THEN e
              ELSE [e EXCEPT ![index] =
                       Entry(PNTM_WINS_PROPAGATION_NEEDED, mate_in_count,
                             IF stalemate_count < e[index].stalemate_cnt
                             THEN stalemate_count ELSE e[index].stalemate_cnt)]

\* add_one_to_white_wins and add_one_to_black_wins with the fault of no test for an entry
\* the player to move has won: the win is counted down like a number of moves
add_one_to_side_wins_off_a_win(e, index, mover, mate_in_count, stalemate_count) ==
    IF (index % 2) = mover
    THEN e
    ELSE IF e[index].movecnt = 0
              \/ (e[index].movecnt > MAX_MOVECNT /\ ~PTM_wins(e, index))
         THEN e
         ELSE [e EXCEPT ![index] =
                  Entry(e[index].movecnt - 1, mate_in_count,
                        IF stalemate_count < e[index].stalemate_cnt
                        THEN stalemate_count ELSE e[index].stalemate_cnt)]

\* add_one_to_white_wins and add_one_to_black_wins with the fault of a mate_in_cnt that
\* is kept when the count passed is not below it
add_one_to_side_wins_keeping_least(e, index, mover, mate_in_count, stalemate_count) ==
    IF (index % 2) = mover
    THEN e
    ELSE IF PTM_wins(e, index)
         THEN e
         ELSE IF e[index].movecnt = 0 \/ e[index].movecnt > MAX_MOVECNT
              THEN e
              ELSE [e EXCEPT ![index] =
                       Entry(e[index].movecnt - 1,
                             IF mate_in_count < e[index].mate_in_cnt
                             THEN mate_in_count ELSE e[index].mate_in_cnt,
                             IF stalemate_count < e[index].stalemate_cnt
                             THEN stalemate_count ELSE e[index].stalemate_cnt)]

\* add_one_to_white_wins and add_one_to_black_wins with the fault of storing the mate-in
\* count of the parent, one less than the count passed
add_one_to_side_wins_same_mate_in(e, index, mover, mate_in_count, stalemate_count) ==
    IF (index % 2) = mover
    THEN e
    ELSE IF PTM_wins(e, index)
         THEN e
         ELSE IF e[index].movecnt = 0 \/ e[index].movecnt > MAX_MOVECNT
              THEN e
              ELSE [e EXCEPT ![index] =
                       Entry(e[index].movecnt - 1, mate_in_count - 1,
                             IF stalemate_count < e[index].stalemate_cnt
                             THEN stalemate_count ELSE e[index].stalemate_cnt)]

\* add_one_to_white_wins and add_one_to_black_wins
add_one_to_side_wins(e, index, mover, mate_in_count, stalemate_count) ==
    IF (index % 2) = mover
    THEN e
    ELSE IF PTM_wins(e, index)
         THEN e
         ELSE IF e[index].movecnt = 0 \/ e[index].movecnt > MAX_MOVECNT
              THEN e
              ELSE [e EXCEPT ![index] =
                       Entry(e[index].movecnt - 1, mate_in_count,
                             IF stalemate_count < e[index].stalemate_cnt
                             THEN stalemate_count ELSE e[index].stalemate_cnt)]

add_one_to_white_wins(e, index, mate_in_count, stalemate_count) ==
    add_one_to_side_wins(e, index, WHITE, mate_in_count, stalemate_count)

add_one_to_black_wins(e, index, mate_in_count, stalemate_count) ==
    add_one_to_side_wins(e, index, BLACK, mate_in_count, stalemate_count)

initialize_index_as_illegal(e, index) ==
    [e EXCEPT ![index] = Entry(ILLEGAL_POSITION, 255, 255)]

initialize_index_with_white_mated(e, index) ==
    black_wins([e EXCEPT ![index] = Entry(PTM_WINS_PROPAGATION_NEEDED, 0, 0)], index, 0, 0)

\* initialize_index_with_black_mated with the fault of writing the win as propagated
initialize_index_with_black_mated_as_propagated(e, index) ==
    [e EXCEPT ![index] = Entry(PTM_WINS_PROPAGATION_DONE, 0, 0)]

initialize_index_with_black_mated(e, index) ==
    [e EXCEPT ![index] = Entry(PTM_WINS_PROPAGATION_NEEDED, 0, 0)]

initialize_index_with_stalemate(e, index) ==
    [e EXCEPT ![index] = Entry(251, 255, 0)]

\* initialize_index_with_movecnt with the fault of writing the stalemate flag whatever
\* the count
initialize_index_with_movecnt_as_stalemate(e, index, movecnt) ==
    [e EXCEPT ![index] = Entry(251, 255, 255)]

initialize_index_with_movecnt(e, index, movecnt) ==
    [e EXCEPT ![index] = Entry(movecnt, 255, 255)]

(***************************************************************************)
(* What the per-entry operations print on stderr, in the order of the      *)
(* fprintf calls.                                                          *)
(***************************************************************************)
\* what mark_propagated prints
mark_propagated_stderr(e, index) ==
    IF e[index].movecnt \in {PTM_WINS_PROPAGATION_NEEDED, PNTM_WINS_PROPAGATION_NEEDED}
    THEN << >>
    ELSE <<"Propagation attempt on a completed or unresolved position">>

\* what white_wins and black_wins print: `mover` is the colour the function is named after
side_wins_stderr(e, index, mover, mate_in_count) ==
    LET dropped == IF mate_in_count < e[index].mate_in_cnt
                   THEN <<IF mover = WHITE THEN "Mate in count dropped in white_wins!?"
                          ELSE "Mate in count dropped in black_wins!?">>
                   ELSE << >>
        already_won == <<IF mover = WHITE
                         THEN "White_wins in a position where black already won?!"
                         ELSE "Black_wins in a position where white already won?!">>
    IN  IF (index % 2) = mover
        THEN IF PTM_wins(e, index) THEN dropped
             ELSE IF PNTM_wins(e, index) THEN already_won
             ELSE << >>
        ELSE <<IF mover = WHITE THEN "White_wins in a black to move position..."
               ELSE "Black_wins in a white to move position...">>
             \o (IF PNTM_wins(e, index) THEN dropped
                 ELSE IF PTM_wins(e, index) THEN already_won
                 ELSE << >>)

\* what add_one_to_white_wins and add_one_to_black_wins print
add_one_to_side_wins_stderr(e, index, mover, mate_in_count) ==
    IF (index % 2) = mover
    THEN <<IF mover = WHITE THEN "add_one_to_white_wins in a white to move position"
           ELSE "add_one_to_black_wins in a black to move position">>
    ELSE IF PTM_wins(e, index) THEN << >>
    ELSE IF e[index].movecnt = 0 \/ e[index].movecnt > MAX_MOVECNT
         THEN <<IF mover = WHITE THEN "add_one_to_white_wins in an already won position!?"
                ELSE "add_one_to_black_wins in an already won position!?">>
    ELSE IF mate_in_count < e[index].mate_in_cnt /\ e[index].mate_in_cnt # 255
         THEN <<IF mover = WHITE THEN "mate-in count dropped in add_one_to_white_wins?"
                ELSE "mate-in count dropped in add_one_to_black_wins?">>
    ELSE << >>

\* the five functions
PerEntryFunctions ==
    {"mark_propagated", "white_wins", "black_wins", "add_one_to_white_wins",
     "add_one_to_black_wins"}

\* the table a call of one of the five functions leaves
call_result(e, call) ==
    CASE call.function = "mark_propagated" -> mark_propagated(e, call.index)
      [] call.function = "white_wins" ->
             white_wins(e, call.index, call.mate_in_count, call.stalemate_count)
      [] call.function = "black_wins" ->
             black_wins(e, call.index, call.mate_in_count, call.stalemate_count)
      [] call.function = "add_one_to_white_wins" ->
             add_one_to_white_wins(e, call.index, call.mate_in_count, call.stalemate_count)
      [] call.function = "add_one_to_black_wins" ->
             add_one_to_black_wins(e, call.index, call.mate_in_count, call.stalemate_count)
      [] call.function = "get_mate_in_count" -> e

\* what the call prints
call_stderr(e, call) ==
    CASE call.function = "mark_propagated" -> mark_propagated_stderr(e, call.index)
      [] call.function = "white_wins" ->
             side_wins_stderr(e, call.index, WHITE, call.mate_in_count)
      [] call.function = "black_wins" ->
             side_wins_stderr(e, call.index, BLACK, call.mate_in_count)
      [] call.function = "add_one_to_white_wins" ->
             add_one_to_side_wins_stderr(e, call.index, WHITE, call.mate_in_count)
      [] call.function = "add_one_to_black_wins" ->
             add_one_to_side_wins_stderr(e, call.index, BLACK, call.mate_in_count)
      [] call.function = "get_mate_in_count" -> << >>

\* what the call returns: the five functions above are void
call_returned(e, call) ==
    IF call.function = "get_mate_in_count" THEN get_mate_in_count(e, call.index) ELSE "void"

(***************************************************************************)
(* initialize_tablebase.  mv is the movement table of the board.           *)
(***************************************************************************)
\* the entry (numbered from 1) at which the scan
\*   for (movementptr = ray; (movementptr->vector & board_vector) == 0; movementptr++)
\* stops
RECURSIVE ScanStop(_, _, _)
ScanStop(ray, board_vector, m) ==
    IF (ray[m].vector \cap board_vector) = {} THEN ScanStop(ray, board_vector, m + 1) ELSE m

\* the loops over piece and dir of initialize_tablebase from (piece, dir) on, with
\* movecnt moves counted so far; mated is the jump to the label of that name
RECURSIVE count_moves(_, _, _, _, _, _)
count_moves(tb, mv, parent_position, piece, dir, movecnt) ==
    IF piece >= tb.num_mobiles THEN [mated |-> FALSE, movecnt |-> movecnt]
    ELSE IF tb.mobile_piece_color[piece] # parent_position.side_to_move
              \/ dir >= number_of_movement_directions[tb.mobile_piece_type[piece] + 1]
         THEN count_moves(tb, mv, parent_position, piece + 1, 0, movecnt)
         ELSE LET ray == mv[tb.mobile_piece_type[piece]]
                           [parent_position.mobile_piece_position[piece]][dir]
                  own_vector == IF parent_position.side_to_move = WHITE
                                THEN parent_position.white_vector
                                ELSE parent_position.black_vector
                  enemy_king == IF parent_position.side_to_move = WHITE
                                THEN BLACK_KING ELSE WHITE_KING
                  capture(stop) == (ray[stop].vector \cap own_vector) = {}
                  counted(stop) == movecnt + (stop - 1) + (IF capture(stop) THEN 1 ELSE 0)
              IN  With(ScanStop(ray, parent_position.board_vector, 1), LAMBDA stop :
                      IF capture(stop)
                         /\ ray[stop].square = parent_position.mobile_piece_position[enemy_king]
                      THEN [mated |-> TRUE, movecnt |-> counted(stop)]
                      ELSE With(counted(stop), LAMBDA so_far :
                               count_moves(tb, mv, parent_position, piece, dir + 1, so_far)))

\* the body of the loop with the fault of a position in which the king can be taken
\* written as illegal, not as a win in 0
initialize_index_mated_as_illegal(tb, sb, mv, e, index) ==
    With(index_to_position(tb, sb, index), LAMBDA decoded :
        IF ~decoded.ok
        THEN initialize_index_as_illegal(e, index)
        ELSE With(count_moves(tb, mv, decoded.p, 0, 0, 0), LAMBDA counted :
                 IF counted.mated
                 THEN initialize_index_as_illegal(e, index)
                 ELSE IF counted.movecnt = 0
                      THEN initialize_index_with_stalemate(e, index)
                      ELSE initialize_index_with_movecnt(e, index, counted.movecnt)))

\* the body of the loop of initialize_tablebase for one index
initialize_index(tb, sb, mv, e, index) ==
    With(index_to_position(tb, sb, index), LAMBDA decoded :
        IF ~decoded.ok
        THEN initialize_index_as_illegal(e, index)
        ELSE With(count_moves(tb, mv, decoded.p, 0, 0, 0), LAMBDA counted :
                 IF counted.mated
                 THEN IF decoded.p.side_to_move = WHITE
                      THEN initialize_index_with_black_mated(e, index)
                      ELSE initialize_index_with_white_mated(e, index)
                 ELSE IF counted.movecnt = 0
                      THEN initialize_index_with_stalemate(e, index)
                      ELSE initialize_index_with_movecnt(e, index, counted.movecnt)))

\* for (index=0; index < max_index_static; index++): each pass of the loop writes the
\* entry of its own index only
initialize_tablebase(tb, sb, mv, e) ==
    LET max_index_static == max_index(tb, sb)
    IN  [index \in DOMAIN e |->
            IF index < max_index_static
            THEN initialize_index(tb, sb, mv, e, index)[index]
            ELSE e[index]]

(***************************************************************************)
(* propagate_move_within_table.                                            *)
(***************************************************************************)
\* predecessor_indices with the fault of a movementptr loop that runs one entry on, onto
\* the occupied square that ends the ray
RECURSIVE predecessor_indices_onto_blocker(_, _, _, _, _, _)
predecessor_indices_onto_blocker(tb, sb, mv, parent_position, piece, dir) ==
    IF piece >= tb.num_mobiles THEN << >>
    ELSE IF tb.mobile_piece_color[piece] = parent_position.side_to_move
              \/ dir >= number_of_movement_directions[tb.mobile_piece_type[piece] + 1]
         THEN predecessor_indices_onto_blocker(tb, sb, mv, parent_position, piece + 1, 0)
         ELSE LET ray == mv[tb.mobile_piece_type[piece]]
                           [parent_position.mobile_piece_position[piece]][dir]
                  stop == ScanStop(ray, parent_position.board_vector, 1)
                  last == IF ray[stop].vector = allones_bitvector THEN stop - 1 ELSE stop
                  current_position(m) ==
                      [parent_position EXCEPT
                          !.side_to_move = IF parent_position.side_to_move = WHITE
                                           THEN BLACK ELSE WHITE,
                          !.mobile_piece_position[piece] = ray[m].square]
              IN  [m \in 1 .. last |-> position_to_index(tb, sb, current_position(m))]
                  \o predecessor_indices_onto_blocker(tb, sb, mv, parent_position, piece,
                                                      dir + 1)

\* predecessor_indices with the fault of moving back the pieces of the side that is to
\* move at the parent
RECURSIVE predecessor_indices_of_side_to_move(_, _, _, _, _, _)
predecessor_indices_of_side_to_move(tb, sb, mv, parent_position, piece, dir) ==
    IF piece >= tb.num_mobiles THEN << >>
    ELSE IF tb.mobile_piece_color[piece] # parent_position.side_to_move
              \/ dir >= number_of_movement_directions[tb.mobile_piece_type[piece] + 1]
         THEN predecessor_indices_of_side_to_move(tb, sb, mv, parent_position, piece + 1, 0)
         ELSE LET ray == mv[tb.mobile_piece_type[piece]]
                           [parent_position.mobile_piece_position[piece]][dir]
                  stop == ScanStop(ray, parent_position.board_vector, 1)
                  current_position(m) ==
                      [parent_position EXCEPT
                          !.side_to_move = IF parent_position.side_to_move = WHITE
                                           THEN BLACK ELSE WHITE,
                          !.mobile_piece_position[piece] = ray[m].square]
              IN  [m \in 1 .. (stop - 1) |-> position_to_index(tb, sb, current_position(m))]
                  \o predecessor_indices_of_side_to_move(tb, sb, mv, parent_position, piece,
                                                         dir + 1)

\* the indices current_index the loops over piece, dir and movementptr compute, in the
\* order of the loops, from (piece, dir) on
RECURSIVE predecessor_indices(_, _, _, _, _, _)
predecessor_indices(tb, sb, mv, parent_position, piece, dir) ==
    IF piece >= tb.num_mobiles THEN << >>
    ELSE IF tb.mobile_piece_color[piece] = parent_position.side_to_move
              \/ dir >= number_of_movement_directions[tb.mobile_piece_type[piece] + 1]
         THEN predecessor_indices(tb, sb, mv, parent_position, piece + 1, 0)
         ELSE LET ray == mv[tb.mobile_piece_type[piece]]
                           [parent_position.mobile_piece_position[piece]][dir]
                  stop == ScanStop(ray, parent_position.board_vector, 1)
                  current_position(m) ==
                      [parent_position EXCEPT
                          !.side_to_move = IF parent_position.side_to_move = WHITE
                                           THEN BLACK ELSE WHITE,
                          !.mobile_piece_position[piece] = ray[m].square]
              IN  [m \in 1 .. (stop - 1) |-> position_to_index(tb, sb, current_position(m))]
                  \o predecessor_indices(tb, sb, mv, parent_position, piece, dir + 1)

\* the update of one predecessor entry with the fault of no test of the parent's
\* stalemate count
propagate_to_index_ungated(e, parent_index, parent_side_to_move, current_index) ==
    IF parent_side_to_move = WHITE
    THEN IF does_white_win(e, parent_index)
         THEN add_one_to_white_wins(e, current_index, get_mate_in_count(e, parent_index) + 1,
                                    get_stalemate_count(e, parent_index) + 1)
         ELSE IF does_black_win(e, parent_index)
              THEN black_wins(e, current_index, get_mate_in_count(e, parent_index) + 1,
                              get_stalemate_count(e, parent_index) + 1)
              ELSE e
    ELSE IF does_black_win(e, parent_index)
         THEN add_one_to_black_wins(e, current_index, get_mate_in_count(e, parent_index) + 1,
                                    get_stalemate_count(e, parent_index) + 1)
         ELSE IF does_white_win(e, parent_index)
              THEN white_wins(e, current_index, get_mate_in_count(e, parent_index) + 1,
                              get_stalemate_count(e, parent_index) + 1)
              ELSE e

\* the update of one predecessor entry, lines 1181-1228
propagate_to_index(e, parent_index, parent_side_to_move, current_index) ==
    IF parent_side_to_move = WHITE
    THEN IF does_white_win(e, parent_index)
         THEN IF get_stalemate_count(e, parent_index) < STALEMATE_COUNT
              THEN add_one_to_white_wins(e, current_index,
                                         get_mate_in_count(e, parent_index) + 1,
                                         get_stalemate_count(e, parent_index) + 1)
              ELSE e
         ELSE IF does_black_win(e, parent_index)
              THEN IF get_stalemate_count(e, parent_index) < STALEMATE_COUNT
                   THEN black_wins(e, current_index,
                                   get_mate_in_count(e, parent_index) + 1,
                                   get_stalemate_count(e, parent_index) + 1)
                   ELSE e
              ELSE e
    ELSE IF does_black_win(e, parent_index)
         THEN IF get_stalemate_count(e, parent_index) < STALEMATE_COUNT
              THEN add_one_to_black_wins(e, current_index,
                                         get_mate_in_count(e, parent_index) + 1,
                                         get_stalemate_count(e, parent_index) + 1)
              ELSE e
         ELSE IF does_white_win(e, parent_index)
              THEN IF get_stalemate_count(e, parent_index) < STALEMATE_COUNT
                   THEN white_wins(e, current_index,
                                   get_mate_in_count(e, parent_index) + 1,
                                   get_stalemate_count(e, parent_index) + 1)
                   ELSE e
              ELSE e

\* the updates of the predecessor entries indices[k], indices[k+1], ... in turn.  e holds
\* the whole table or, in the builds on a part of the table, the entries of that part:
\* an update of an entry outside the part is left out
RECURSIVE propagate_to_indices(_, _, _, _, _)
propagate_to_indices(e, parent_index, parent_side_to_move, indices, k) ==
    IF k > Len(indices) THEN e
    ELSE propagate_to_indices(
             With(e, LAMBDA table :
                 IF indices[k] \in DOMAIN table
                 THEN propagate_to_index(table, parent_index, parent_side_to_move, indices[k])
                 ELSE table),
             parent_index, parent_side_to_move, indices, k + 1)

propagate_move_within_table(tb, sb, mv, e, parent_index, mate_in_count) ==
    With(index_to_position(tb, sb, parent_index).p, LAMBDA parent_position :
        With(predecessor_indices(tb, sb, mv, parent_position, 0, 0), LAMBDA indices :
            propagate_to_indices(mark_propagated(e, parent_index), parent_index,
                                 parent_position.side_to_move, indices, 1)))

(***************************************************************************)
(* Forward moves, as initialize_tablebase counts them.                     *)
(***************************************************************************)
\* the indices reached by the moves the loops of initialize_tablebase count, from
\* (piece, dir) on: for each mobile of the side to move and each direction the squares
\* before the first occupied one (quiet moves) and, when the scan stops on a square not
\* held by the mover's own colour, that square (a capture)
RECURSIVE forward_indices(_, _, _, _, _, _)
forward_indices(tb, sb, mv, parent_position, piece, dir) ==
    IF piece >= tb.num_mobiles THEN << >>
    ELSE IF tb.mobile_piece_color[piece] # parent_position.side_to_move
              \/ dir >= number_of_movement_directions[tb.mobile_piece_type[piece] + 1]
         THEN forward_indices(tb, sb, mv, parent_position, piece + 1, 0)
         ELSE LET ray == mv[tb.mobile_piece_type[piece]]
                           [parent_position.mobile_piece_position[piece]][dir]
                  stop == ScanStop(ray, parent_position.board_vector, 1)
                  own_vector == IF parent_position.side_to_move = WHITE
                                THEN parent_position.white_vector
                                ELSE parent_position.black_vector
                  capture == (ray[stop].vector \cap own_vector) = {}
                  moved(m) ==
                      [parent_position EXCEPT
                          !.side_to_move = IF parent_position.side_to_move = WHITE
                                           THEN BLACK ELSE WHITE,
                          !.mobile_piece_position[piece] = ray[m].square]
                  last == IF capture THEN stop ELSE stop - 1
              IN  [m \in 1 .. last |->
                      [index |-> position_to_index(tb, sb, moved(m)), capture |-> m = stop]]
                  \o forward_indices(tb, sb, mv, parent_position, piece, dir + 1)

(***************************************************************************)
(* main.                                                                   *)
(***************************************************************************)
VARIABLES
    tb,                    \* the tablebase header
    square_bits,           \* bits of an index per mobile: the board of this run
    entries,               \* tb->entries
    pc,                    \* where main stands
    max_moves_to_win,      \* locals of main
    moves_to_win,
    progress_made,
    index,
    pending_at_loop_entry, \* history: the indices that needed propagation when main
                           \* reached its while loop
    decoded,               \* codec runs: what index_to_position returned, [ok, p]
    current_index,         \* codec runs: what position_to_index returned
    verified,              \* runs of verify_movements: the piece and the pair of squares
                           \* of one pass of its loops, with the two flags of that pass
    threads,               \* runs of two propagations at once: the table they share and
                           \* how far each has come
    called,                \* runs of one function on its own: the call, what it printed
                           \* on stderr and what it returned
    cookie                 \* runs of url_fopen.c: the struct curl_cookie of the handle

\* the global table of the board of this run
board_movements == IF square_bits = SQUARE_BITS THEN movements_64 ELSE movements

vars == <<tb, square_bits, entries, pc, max_moves_to_win, moves_to_win, progress_made, index,
          pending_at_loop_entry, decoded, current_index, verified, threads, called,
          cookie>>

\* no propagation runs beside the loop of main
NoThreads == [running |-> FALSE]

\* no function is run on its own
NoCall == [function |-> "none"]

\* no url handle has been opened: the fields of struct curl_cookie, the state of the two
\* malloc blocks (the struct and its URL) and, as history, the sorts of access made to
\* the struct after it was freed
NoCookie ==
    [memory |-> "none", URL |-> "none", operation |-> "none", curl |-> "none",
     multi_handle |-> "none", buffer |-> "NULL", buffer_len |-> 0, buffer_pos |-> 0,
     still_running |-> 0, after_free |-> {}]

\* the locals of verify_movements when it is not running
NotVerifying ==
    [piece |-> KING, squareA |-> 0, squareB |-> 0,
     movement_possible |-> FALSE, reverse_movement_possible |-> FALSE]

codec_vars == <<decoded, current_index>>

KvK == Tablebase(<<KING, KING>>, <<WHITE, BLACK>>)

\* the tablebases built: create_tablebase's K+Q vs K, and what a control file could ask for
Configs ==
    { KvK,
      create_tablebase,
      Tablebase(<<KING, KING, QUEEN>>, <<WHITE, BLACK, BLACK>>),
      Tablebase(<<KING, KING, ROOK>>, <<WHITE, BLACK, WHITE>>),
      Tablebase(<<KING, KING, KNIGHT>>, <<WHITE, BLACK, BLACK>>),
      Tablebase(<<KING, KING, BISHOP>>, <<WHITE, BLACK, WHITE>>) }

\* main after create_tablebase, for a tablebase out of T: the entries as calloc leaves them
InitBuild(T) ==
    /\ tb \in T
    /\ square_bits = SquareBits
    /\ entries = [i \in 0 .. (NumEntries(tb, square_bits) - 1) |-> ZeroEntry]
    /\ pc = "initialize_tablebase"
    /\ max_moves_to_win = 0
    /\ moves_to_win = 0
    /\ progress_made = 0
    /\ index = 0
    /\ pending_at_loop_entry = {}
    /\ decoded = [ok |-> FALSE, p |-> ZeroPosition]
    /\ current_index = 0
    /\ verified = NotVerifying
    /\ threads = NoThreads
    /\ cookie = NoCookie
    /\ called = NoCall

Init == InitBuild(Configs)

InitializeTablebase ==
    /\ pc = "initialize_tablebase"
    /\ entries' = initialize_tablebase(tb, square_bits, board_movements, entries)
    /\ pc' = "futurebases"
    /\ UNCHANGED <<verified, threads, called, cookie, tb, square_bits, max_moves_to_win, moves_to_win,
                   progress_made, index, pending_at_loop_entry, codec_vars>>

\* the indices of a table that need propagation
Pending(e) == {i \in DOMAIN e : needs_propagation(e, i)}

\* the #else of #ifdef FUTUREBASE, and the assignments before the while loop
NoFuturebases ==
    /\ pc = "futurebases"
    /\ max_moves_to_win' = 1
    /\ moves_to_win' = 0
    /\ progress_made' = 1
    /\ pc' = "while"
    /\ pending_at_loop_entry' = Pending(entries)
    /\ UNCHANGED <<verified, threads, called, cookie, tb, square_bits, entries, index, codec_vars>>

\* while (progress_made || moves_to_win < max_moves_to_win)
LoopCondition == progress_made # 0 \/ moves_to_win < max_moves_to_win

EnterPass ==
    /\ pc = "while"
    /\ LoopCondition
    /\ progress_made' = 0
    /\ index' = 0
    /\ pc' = "for"
    /\ UNCHANGED <<verified, threads, called, cookie, tb, square_bits, entries, max_moves_to_win,
                   moves_to_win, pending_at_loop_entry, codec_vars>>

ExitLoop ==
    /\ pc = "while"
    /\ ~LoopCondition
    /\ pc' = "done"
    /\ UNCHANGED <<verified, threads, called, cookie, tb, square_bits, entries, max_moves_to_win,
                   moves_to_win, progress_made, index, pending_at_loop_entry, codec_vars>>

\* the test of line 1364 with the fault of no comparison of the mate-in count
ToPropagateAnyMateIn(e, i, mate_in_count) == needs_propagation(e, i)

\* the test of line 1364
ToPropagate(e, i, mate_in_count) ==
    needs_propagation(e, i) /\ get_mate_in_count(e, i) = mate_in_count

\* the indices the for loop has still to visit (of the entries the model holds)
Ahead == (index .. (max_index(tb, square_bits) - 1)) \cap DOMAIN entries

\* no index ahead is propagated in this pass
PassIsOver == ~(\E i \in Ahead : ToPropagate(entries, i, moves_to_win))

\* the first index at or after `index` that the for loop propagates
NextToPropagate ==
    CHOOSE i \in Ahead :
        /\ ToPropagate(entries, i, moves_to_win)
        /\ \A j \in Ahead : j < i => ~ToPropagate(entries, j, moves_to_win)

\* the for loop runs on to the next index it propagates
PropagateNext ==
    /\ pc = "for"
    /\ ~PassIsOver
    /\ \E i \in {NextToPropagate} :
          /\ entries' = propagate_move_within_table(tb, square_bits, board_movements, entries,
                                                    i, moves_to_win)
          /\ index' = i + 1
    /\ progress_made' = progress_made + 1
    /\ UNCHANGED <<verified, threads, called, cookie, tb, square_bits, pc, max_moves_to_win, moves_to_win,
                   pending_at_loop_entry, codec_vars>>

\* the end of a pass with the fault of a moves_to_win that is not incremented
PassCompleteSameMateIn ==
    /\ pc = "for"
    /\ PassIsOver
    /\ index' = max_index(tb, square_bits)
    /\ pc' = "while"
    /\ UNCHANGED <<verified, threads, called, cookie, tb, square_bits, entries, max_moves_to_win,
                   moves_to_win, progress_made, pending_at_loop_entry, codec_vars>>

\* the for loop runs to its end without propagating
PassComplete ==
    /\ pc = "for"
    /\ PassIsOver
    /\ index' = max_index(tb, square_bits)
    /\ moves_to_win' = moves_to_win + 1
    /\ pc' = "while"
    /\ UNCHANGED <<verified, threads, called, cookie, tb, square_bits, entries, max_moves_to_win,
                   progress_made, pending_at_loop_entry, codec_vars>>

\* the loop of main
Loop ==
    \/ EnterPass
    \/ PropagateNext
    \/ PassComplete
    \/ ExitLoop

Next ==
    \/ InitializeTablebase
    \/ NoFuturebases
    \/ Loop

\* main as it is compiled: FUTUREBASE is not defined
Spec == Init /\ [][Next]_vars

\* main runs on until it returns
FairSpec == Spec /\ WF_vars(Next)

(***************************************************************************)
(* main compiled with FUTUREBASE.  The body of                             *)
(* propagate_moves_from_futurebases is not part of the source; it is       *)
(* modelled from its contract: it seeds entries of the table exactly as if *)
(* a win or a loss had been proved by a move into a futurebase, and        *)
(* returns the largest mate-in count it seeded.  Here it seeds one entry.  *)
(***************************************************************************)
\* a futuremove at index i of the side to move, into a position the futurebase records
\* as won by `winner` in mate_in_count - 1
seed_from_futurebase(e, i, winner, mate_in_count) ==
    IF (i % 2) = winner
    THEN IF winner = WHITE
         THEN white_wins(e, i, mate_in_count, 0)
         ELSE black_wins(e, i, mate_in_count, 0)
    ELSE IF winner = WHITE
         THEN add_one_to_white_wins(e, i, mate_in_count, 0)
         ELSE add_one_to_black_wins(e, i, mate_in_count, 0)

propagate_moves_from_futurebases ==
    /\ pc = "futurebases"
    /\ \E i \in 0 .. (max_index(tb, square_bits) - 1), winner \in {WHITE, BLACK},
          mate_in_count \in 1 .. MaxFutureMate :
          /\ entries[i].movecnt \in 1 .. MAX_MOVECNT
          /\ entries' = seed_from_futurebase(entries, i, winner, mate_in_count)
          /\ max_moves_to_win' = mate_in_count
    /\ moves_to_win' = 0
    /\ progress_made' = 1
    /\ pc' = "while"
    /\ pending_at_loop_entry' = Pending(entries')
    /\ UNCHANGED <<verified, threads, called, cookie, tb, square_bits, index, codec_vars>>

InitFuturebase == InitBuild({KvK})

NextFuturebase ==
    \/ InitializeTablebase
    \/ propagate_moves_from_futurebases
    \/ Loop

SpecFuturebase == InitFuturebase /\ [][NextFuturebase]_vars

(***************************************************************************)
(* The codec on its own: index_to_position on an index of a table, then    *)
(* position_to_index on the position it gave.                              *)
(***************************************************************************)
\* the tables of the builds, and a table of two mobiles on the source's board of 64
CodecRuns ==
    {<<t, SquareBits>> : t \in Configs} \cup {<<KvK, SQUARE_BITS>>}

InitCodec ==
    /\ \E run \in CodecRuns : tb = run[1] /\ square_bits = run[2]
    /\ index \in 0 .. (NumEntries(tb, square_bits) - 1)
    /\ entries = << >>
    /\ pc = "index"
    /\ max_moves_to_win = 0
    /\ moves_to_win = 0
    /\ progress_made = 0
    /\ pending_at_loop_entry = {}
    /\ decoded = [ok |-> FALSE, p |-> ZeroPosition]
    /\ current_index = 0
    /\ verified = NotVerifying
    /\ threads = NoThreads
    /\ cookie = NoCookie
    /\ called = NoCall

Decode ==
    /\ pc = "index"
    /\ decoded' = index_to_position(tb, square_bits, index)
    /\ pc' = "decoded"
    /\ UNCHANGED <<verified, threads, called, cookie, tb, square_bits, entries, max_moves_to_win,
                   moves_to_win, progress_made, index, pending_at_loop_entry, current_index>>

Encode ==
    /\ pc = "decoded"
    /\ decoded.ok
    /\ current_index' = position_to_index(tb, square_bits, decoded.p)
    /\ pc' = "encoded"
    /\ UNCHANGED <<verified, threads, called, cookie, tb, square_bits, entries, max_moves_to_win,
                   moves_to_win, progress_made, index, pending_at_loop_entry, decoded>>

NextCodec ==
    \/ Decode
    \/ Encode

SpecCodec == InitCodec /\ [][NextCodec]_vars

\* the moves counted at an index that index_to_position decodes
ForwardMoves(i) ==
    LET moves == forward_indices(tb, square_bits, board_movements,
                                 index_to_position(tb, square_bits, i).p, 0, 0)
    IN  {moves[k] : k \in DOMAIN moves}

Indices == DOMAIN entries

side_does_win(e, i, X) == IF X = WHITE THEN does_white_win(e, i) ELSE does_black_win(e, i)

\* main has left initialize_tablebase behind
Initialized == pc # "initialize_tablebase"

(***************************************************************************)
(* The claims.                                                             *)
(***************************************************************************)

\* C1: after the build every entry won by X in M > 0 has, X to move, a counted forward
\* move to an entry won by X in at most M-1 and, X's opponent to move, only counted
\* forward moves (quiet or capture) to entries won by X in at most M-1
C1_WinsAreBackedBySuccessors ==
    pc = "done" =>
        \A i \in Indices : \A X \in {WHITE, BLACK} :
            (side_does_win(entries, i, X) /\ entries[i].mate_in_cnt > 0) =>
                IF (i % 2) = X
                THEN \E move \in ForwardMoves(i) :
                        /\ side_does_win(entries, move.index, X)
                        /\ entries[move.index].mate_in_cnt <= entries[i].mate_in_cnt - 1
                ELSE \A move \in ForwardMoves(i) :
                        /\ side_does_win(entries, move.index, X)
                        /\ entries[move.index].mate_in_cnt <= entries[i].mate_in_cnt - 1

\* C1 witness: the build is over and both cases have happened: a side has won in M > 0
\* with the move, and with the opponent to move
C1_Witness ==
    /\ pc = "done"
    /\ \E i \in Indices : PTM_wins(entries, i) /\ entries[i].mate_in_cnt > 1
    /\ \E i \in Indices : PNTM_wins(entries, i) /\ entries[i].mate_in_cnt > 1

\* C2: when the loop of main exits no entry of the table needs propagation
C2_NoPropagationNeededAtExit ==
    pc = "done" => \A i \in Indices : ~needs_propagation(entries, i)

\* C3: after initialize_tablebase no entry of the table holds its zero-filled value
C3_EveryEntryInitialized ==
    pc = "futurebases" => \A i \in Indices : entries[i] # ZeroEntry

\* C4: from initialization on no step of the build increases the mate_in_cnt of an entry
C4_MateInNeverIncreases ==
    [][Initialized => \A i \in Indices : entries'[i].mate_in_cnt <= entries[i].mate_in_cnt]_vars

\* C4 as amended: from initialization on no step increases the mate_in_cnt of an entry
\* that is not counting moves (movecnt outside 1..251)
C4_MateInNeverIncreasesOnceSettled ==
    [][Initialized =>
          \A i \in Indices :
              ~(entries[i].movecnt \in 1 .. MAX_MOVECNT) =>
                  entries'[i].mate_in_cnt <= entries[i].mate_in_cnt]_vars

\* the predecessor indices propagate_move_within_table computes for a parent index
PredecessorsOf(parent_index) ==
    LET indices == predecessor_indices(tb, square_bits, board_movements,
                                       index_to_position(tb, square_bits, parent_index).p, 0, 0)
    IN  {indices[k] : k \in DOMAIN indices}

\* the last step was the propagation of index - 1
JustPropagated == pc = "for" /\ progress_made > 0 /\ index > 0

\* C4 witness: the propagation just made offered its mate-in count plus one to a
\* predecessor entry that was not counting moves and holds a smaller mate_in_cnt
C4_Witness ==
    /\ JustPropagated
    /\ \E c \in PredecessorsOf(index - 1) :
          /\ ~(entries[c].movecnt \in 1 .. MAX_MOVECNT)
          /\ entries[c].mate_in_cnt < entries[index - 1].mate_in_cnt + 1

\* C5: every entry propagated in pass N has mate_in_cnt N when it is propagated, and the
\* pass number never decreases, so the mate_in_cnt of the propagated entries never goes down
C5_PassesAscend ==
    [][/\ (pc = "for" /\ pc' = "for" /\ index' > index) =>
              entries[index' - 1].mate_in_cnt = moves_to_win
       /\ (pc \in {"while", "for"}) => moves_to_win' >= moves_to_win]_vars

\* C5 witness: an entry has just been propagated in a pass after the first two
C5_Witness ==
    /\ JustPropagated
    /\ moves_to_win >= 2
    /\ entries[index - 1].mate_in_cnt = moves_to_win

\* C10: an ILLEGAL entry is never among the predecessor indices of a propagation, and no
\* step after initialization changes it
C10_IllegalNeverTargeted ==
    [][Initialized =>
          /\ \A i \in Indices :
                entries[i].movecnt = ILLEGAL_POSITION => entries'[i] = entries[i]
          /\ (pc = "for" /\ pc' = "for" /\ index' > index) =>
                \A c \in PredecessorsOf(index' - 1) :
                    entries[c].movecnt # ILLEGAL_POSITION]_vars

\* C10 witness: a propagation that computed predecessor indices has just run on a table
\* that holds ILLEGAL entries
C10_Witness ==
    /\ JustPropagated
    /\ PredecessorsOf(index - 1) # {}
    /\ \E i \in Indices : entries[i].movecnt = ILLEGAL_POSITION

\* C6: the loop of main terminates: main reaches the end of the loop
C6_LoopTerminates == <>(pc = "done")

\* C6 witness: the loop has exited after several passes, the last of which propagated
\* nothing
C6_Witness == pc = "done" /\ moves_to_win >= 3 /\ progress_made = 0

\* C7: the entries that needed propagation when the loop was entered, all with mate_in_cnt
\* at most max_moves_to_win, have all been propagated when the loop exits
C7_SeededEntriesPropagated ==
    (/\ pc = "done"
     /\ \A i \in pending_at_loop_entry : entries[i].mate_in_cnt <= max_moves_to_win)
        => \A i \in pending_at_loop_entry : ~needs_propagation(entries, i)

\* C7, for the entries the loops of main visit (those below max_index) only
C7_SeededEntriesInReachPropagated ==
    (/\ pc = "done"
     /\ \A i \in pending_at_loop_entry : entries[i].mate_in_cnt <= max_moves_to_win)
        => \A i \in pending_at_loop_entry :
               i < max_index(tb, square_bits) => ~needs_propagation(entries, i)

\* the square of mobile `piece` in index i: six bits (square_bits here) after bit 0
SquareInIndex(i, piece) ==
    (i \div (2 * Pow2(square_bits * piece))) % Pow2(square_bits)

Mobiles == 0 .. (tb.num_mobiles - 1)

\* C8: position_to_index of the position index_to_position decodes gives the index back
C8_RoundTrip == pc = "encoded" => current_index = index

\* C8 witness: an index was decoded and encoded again that has Black to move and the last
\* mobile on another square than the first
C8_Witness ==
    /\ pc = "encoded"
    /\ index % 2 = BLACK
    /\ SquareInIndex(index, tb.num_mobiles - 1) # SquareInIndex(index, 0)
    /\ SquareInIndex(index, 0) # 0

\* C9: index_to_position fails exactly when two mobiles of the index share a square, and
\* a position it decodes has consistent vectors
C9_DecodeChecksCollisions ==
    pc \in {"decoded", "encoded"} =>
        /\ decoded.ok <=>
              ~(\E a, b \in Mobiles : a # b /\ SquareInIndex(index, a) = SquareInIndex(index, b))
        /\ decoded.ok =>
              /\ decoded.p.white_vector \cup decoded.p.black_vector = decoded.p.board_vector
              /\ decoded.p.white_vector \cap decoded.p.black_vector = {}
              /\ Cardinality(decoded.p.board_vector) = tb.num_mobiles
              /\ \A piece \in Mobiles :
                    bitvector(decoded.p.mobile_piece_position[piece]) \subseteq
                        (IF tb.mobile_piece_color[piece] = WHITE
                         THEN decoded.p.white_vector ELSE decoded.p.black_vector)

\* C9 witness: on a table of three mobiles index_to_position has failed on an index whose
\* last mobile shares the square of the second one, not of the first
C9_Witness ==
    /\ pc = "decoded"
    /\ tb.num_mobiles = 3
    /\ ~decoded.ok
    /\ SquareInIndex(index, 2) = SquareInIndex(index, 1)
    /\ SquareInIndex(index, 0) # SquareInIndex(index, 1)

(***************************************************************************)
(* The geometry of the board, for the claims about positions.              *)
(***************************************************************************)
\* squares are numbered rank by rank: +1 is one file east, one rank up is + Files(sb)
FileOf(sb, square) == square % Files(sb)
RankOf(sb, square) == square \div Files(sb)

Distance(a, b) == IF a < b THEN b - a ELSE a - b

\* two distinct squares a king's step apart
Adjacent(sb, a, b) ==
    /\ a # b
    /\ Distance(FileOf(sb, a), FileOf(sb, b)) <= 1
    /\ Distance(RankOf(sb, a), RankOf(sb, b)) <= 1

\* the two kings of index i stand on adjacent squares
KingsAdjacent(i) ==
    Adjacent(square_bits, SquareInIndex(i, WHITE_KING), SquareInIndex(i, BLACK_KING))

\* index_to_position succeeds on index i
Decodable(i) ==
    \A a, b \in Mobiles : a # b => SquareInIndex(i, a) # SquareInIndex(i, b)

\* C11: every index whose position has the kings on adjacent squares is ILLEGAL after
\* initialize_tablebase and stays so to the end of the build
C11_AdjacentKingsIllegal ==
    Initialized =>
        \A i \in Indices :
            (Decodable(i) /\ KingsAdjacent(i)) => entries[i].movecnt = ILLEGAL_POSITION

\* C11 as amended: an index that decodes to a position with the kings on adjacent squares
\* is initialized as a win in 0 for the side to move (which can take the king): movecnt
\* is 252 or 254 from initialize_tablebase on, 254 when the build is over, and
\* mate_in_cnt stays 0
C11_AdjacentKingsWonByMover ==
    Initialized =>
        \A i \in Indices :
            (Decodable(i) /\ KingsAdjacent(i)) =>
                /\ PTM_wins(entries, i)
                /\ entries[i].mate_in_cnt = 0
                /\ pc = "futurebases" => entries[i].movecnt = PTM_WINS_PROPAGATION_NEEDED
                /\ pc = "done" => entries[i].movecnt = PTM_WINS_PROPAGATION_DONE

\* C11 witness: the build of a table of three mobiles is over and an index with the kings
\* adjacent, either side to move, has been propagated
C11_Witness ==
    /\ pc = "done"
    /\ tb.num_mobiles = 3
    /\ \E i, j \in Indices :
          /\ Decodable(i) /\ KingsAdjacent(i) /\ WHITE_TO_MOVE(i)
          /\ Decodable(j) /\ KingsAdjacent(j) /\ BLACK_TO_MOVE(j)
          /\ entries[i].movecnt = PTM_WINS_PROPAGATION_DONE
          /\ entries[j].movecnt = PTM_WINS_PROPAGATION_DONE

(***************************************************************************)
(* The build of K vs K on the source's board of 64 squares.                *)
(***************************************************************************)
InitBareKings ==
    /\ tb = KvK
    /\ square_bits = SQUARE_BITS
    /\ entries = [i \in 0 .. (NumEntries(tb, square_bits) - 1) |-> ZeroEntry]
    /\ pc = "initialize_tablebase"
    /\ max_moves_to_win = 0
    /\ moves_to_win = 0
    /\ progress_made = 0
    /\ index = 0
    /\ pending_at_loop_entry = {}
    /\ decoded = [ok |-> FALSE, p |-> ZeroPosition]
    /\ current_index = 0
    /\ verified = NotVerifying
    /\ threads = NoThreads
    /\ cookie = NoCookie
    /\ called = NoCall

SpecBareKings == InitBareKings /\ [][Next]_vars

\* C12: when the build of K vs K is over every index with the kings on distinct squares
\* that are not adjacent is a draw: its movecnt is in 1..250
C12_BareKingsDraw ==
    (pc = "done" /\ tb = KvK) =>
        \A i \in Indices :
            (Decodable(i) /\ ~KingsAdjacent(i)) => entries[i].movecnt \in 1 .. 250

\* C12 witness: the build of K vs K is over and a king in the corner a1, with the move,
\* has lost two of its three moves to the propagation from positions in which it can be
\* taken: the other king stands on c2
C12_Witness ==
    /\ pc = "done"
    /\ tb = KvK
    /\ square_bits = SQUARE_BITS
    /\ entries[position_to_index(tb, square_bits,
                   [ZeroPosition EXCEPT !.side_to_move = WHITE,
                                        !.mobile_piece_position[WHITE_KING] = 0,
                                        !.mobile_piece_position[BLACK_KING] = 10])]
           = Entry(1, 1, 1)

(***************************************************************************)
(* The build of K+Q vs K on the source's board of 64 squares, followed on  *)
(* a part of the table: the entries within a number of forward moves of    *)
(* given positions.  An entry is written by its own initialization and by  *)
(* the propagation of the positions one forward move away, so the entries  *)
(* d moves away from the edge of the part go through the first d passes as *)
(* they do in the whole table.                                             *)
(***************************************************************************)
FileLetter == [a |-> 0, b |-> 1, c |-> 2, d |-> 3, e |-> 4, f |-> 5, g |-> 6, h |-> 7]

\* the number of the square of a file and a rank (1 to 8): a1 is 0, h8 is 63
Sq(file, rank) == (rank - 1) * Files(SQUARE_BITS) + file

\* the index of create_tablebase's table for a side to move and the squares of the white
\* king, the black king and the white queen
KQK_index(side_to_move, white_king, black_king, white_queen) ==
    position_to_index(create_tablebase, SQUARE_BITS,
                      [ZeroPosition EXCEPT
                          !.side_to_move = side_to_move,
                          !.mobile_piece_position =
                              [piece \in 0 .. (MAX_MOBILES - 1) |->
                                  IF piece = 0 THEN white_king
                                  ELSE IF piece = 1 THEN black_king
                                  ELSE IF piece = 2 THEN white_queen ELSE 0]])

\* Black to move, K f6, k h8, Q g6: the black king has no square that is not attacked
StalematePosition ==
    KQK_index(BLACK, Sq(FileLetter.f, 6), Sq(FileLetter.h, 8), Sq(FileLetter.g, 6))

\* Black to move, K f6, k h8, Q g7: checkmate
MatedPosition ==
    KQK_index(BLACK, Sq(FileLetter.f, 6), Sq(FileLetter.h, 8), Sq(FileLetter.g, 7))

\* White to move, K e6, k e8, Q d1
MateInThreePosition ==
    KQK_index(WHITE, Sq(FileLetter.e, 6), Sq(FileLetter.e, 8), Sq(FileLetter.d, 1))

\* the indices one counted forward move (quiet or capture) from index i of the table
Successors(i) ==
    With(index_to_position(create_tablebase, SQUARE_BITS, i), LAMBDA position :
        IF position.ok
        THEN With(forward_indices(create_tablebase, SQUARE_BITS, movements_64, position.p,
                                  0, 0),
                  LAMBDA moves : {moves[k].index : k \in DOMAIN moves})
        ELSE {})

\* the White-to-move positions from which a white piece moves to reach index i
Predecessors(i) ==
    With(predecessor_indices(create_tablebase, SQUARE_BITS, movements_64,
                             index_to_position(create_tablebase, SQUARE_BITS, i).p, 0, 0),
         LAMBDA indices : {indices[k] : k \in DOMAIN indices})

\* the indices within depth forward moves of the indices S
RECURSIVE Within(_, _)
Within(S, depth) ==
    IF depth = 0 THEN S
    ELSE Within(S \cup UNION {Successors(i) : i \in S}, depth - 1)

\* the stalemate and its forward moves: its entry goes through initialization and pass 0
\* as in the whole table, and no later propagation writes an entry that is won
StalematePart == Within({StalematePosition}, 1)

\* the positions White moves to the mate from, and two forward moves from them: the entry
\* of the mate goes through the build as in the whole table (its quiet forward moves are
\* propagated in pass 0, its capture never), the entries of the positions before it
\* through pass 1
MatedPart == Within(Predecessors(MatedPosition), 2)

\* two forward moves from K e6, k e8, Q d1: its entry goes through pass 1 as in the whole
\* table
MateInThreePart == Within({MateInThreePosition}, 2)

\* the parts of the table followed
Parts == {StalematePart, MatedPart, MateInThreePart}

InitPart ==
    /\ tb = create_tablebase
    /\ square_bits = SQUARE_BITS
    /\ \E part \in Parts : entries = [i \in part |-> ZeroEntry]
    /\ pc = "initialize_tablebase"
    /\ max_moves_to_win = 0
    /\ moves_to_win = 0
    /\ progress_made = 0
    /\ index = 0
    /\ pending_at_loop_entry = {}
    /\ decoded = [ok |-> FALSE, p |-> ZeroPosition]
    /\ current_index = 0
    /\ verified = NotVerifying
    /\ threads = NoThreads
    /\ cookie = NoCookie
    /\ called = NoCall

SpecPart == InitPart /\ [][Next]_vars

\* the positions before the mate from which the queen, not the king, moves
QueenPredecessors(i) == {j \in Predecessors(i) : SquareInIndex(j, 2) # SquareInIndex(i, 2)}

\* C13: in K+Q vs K the index of Black to move, K f6, k h8, Q g6 is classified as a
\* stalemate: the initializer writes movecnt 251 and stalemate_cnt 0 for it, and the
\* build never turns it into a win for either side
C13_StalemateFlagged ==
    (Initialized /\ DOMAIN entries = StalematePart) =>
        /\ pc = "futurebases" =>
               /\ entries[StalematePosition].movecnt = MAX_MOVECNT
               /\ entries[StalematePosition].stalemate_cnt = 0
        /\ ~does_white_win(entries, StalematePosition)
        /\ ~does_black_win(entries, StalematePosition)

\* what the build does with the stalemate of C13: the initializer counts the three moves
\* of the black king onto attacked squares, and the build ends with Black, to move,
\* lost in 1
C13_StalemateWonByWhite ==
    (DOMAIN entries = StalematePart) =>
        /\ pc = "futurebases" => entries[StalematePosition] = Entry(3, 255, 255)
        /\ pc = "done" =>
               entries[StalematePosition] = Entry(PNTM_WINS_PROPAGATION_DONE, 1, 1)

\* C14: after the build of K+Q vs K the index of Black to move, K f6, k h8, Q g7 records
\* that Black is mated, a win for White, and the White-to-move positions from which the
\* queen moves to g7 record a win for the player to move with mate_in_cnt 1
C14_QueenMates ==
    (pc = "done" /\ DOMAIN entries = MatedPart) =>
        /\ does_white_win(entries, MatedPosition)
        /\ \A j \in QueenPredecessors(MatedPosition) :
               PTM_wins(entries, j) /\ entries[j].mate_in_cnt = 1

\* what the build does with the mate of C14: two of the three moves counted for the black
\* king lose, the capture of the queen is never propagated, one move stays counted
C14_MateLeftUndecided ==
    (pc \in {"futurebases", "done"} /\ DOMAIN entries = MatedPart) =>
        entries[MatedPosition] = IF pc = "done" THEN Entry(1, 1, 1) ELSE Entry(3, 255, 255)

\* C15: after the build of K+Q vs K the index of White to move, K e6, k e8, Q d1 records
\* a win for the player to move with mate_in_cnt at most 3
C15_MateInThree ==
    (pc = "done" /\ DOMAIN entries = MateInThreePart) =>
        /\ PTM_wins(entries, MateInThreePosition)
        /\ entries[MateInThreePosition].mate_in_cnt <= 3

C15_Witness ==
    /\ pc = "done"
    /\ DOMAIN entries = MateInThreePart
    /\ entries[MateInThreePosition] = Entry(PTM_WINS_PROPAGATION_DONE, 2, 2)

(***************************************************************************)
(* verify_movements on its own: one pass of its loops over piece, squareA  *)
(* and squareB, on the table init_movements built.                         *)
(***************************************************************************)
\* whether some ray of the piece from square `from` stops, scanned against the one square
\* `to`, at an entry that is not the sentinel: lines 893-898 and 913-920
ray_reaches(mv, piece_type, from, to) ==
    \E dir \in 0 .. (number_of_movement_directions[piece_type + 1] - 1) :
        With(mv[piece_type][from][dir], LAMBDA ray :
            ray[ScanStop(ray, bitvector(to), 1)].square # -1)

InitVerify ==
    /\ tb = KvK
    /\ square_bits \in {SquareBits, SQUARE_BITS}
    /\ \E piece_type \in KING .. KNIGHT, squareA \in Squares(square_bits),
          squareB \in Squares(square_bits) :
           verified = [NotVerifying EXCEPT !.piece = piece_type,
                                           !.squareA = squareA,
                                           !.squareB = squareB]
    /\ entries = << >>
    /\ pc = "verify_movements"
    /\ max_moves_to_win = 0
    /\ moves_to_win = 0
    /\ progress_made = 0
    /\ index = 0
    /\ pending_at_loop_entry = {}
    /\ decoded = [ok |-> FALSE, p |-> ZeroPosition]
    /\ current_index = 0
    /\ threads = NoThreads
    /\ cookie = NoCookie
    /\ called = NoCall

\* the body of the loop over squareB: nothing but the test for a move onto the own
\* square when squareA == squareB (continue), the two flags otherwise
verify_movements ==
    /\ pc = "verify_movements"
    /\ verified' =
           IF verified.squareA = verified.squareB THEN verified
           ELSE [verified EXCEPT
                    !.movement_possible =
                        ray_reaches(board_movements, verified.piece,
                                    verified.squareA, verified.squareB),
                    !.reverse_movement_possible =
                        ray_reaches(board_movements, verified.piece,
                                    verified.squareB, verified.squareA)]
    /\ pc' = "verified"
    /\ UNCHANGED <<threads, called, cookie, tb, square_bits, entries, max_moves_to_win,
                   moves_to_win, progress_made, index, pending_at_loop_entry, codec_vars>>

NextVerify == verify_movements

SpecVerify == InitVerify /\ [][NextVerify]_vars

\* the entry (numbered from 1) of the first sentinel of a ray
FirstSentinel(ray) ==
    CHOOSE m \in DOMAIN ray :
        ray[m] = SentinelMovement /\ \A k \in 1 .. (m - 1) : ray[k] # SentinelMovement

\* the destinations of a ray: the squares of its entries before the sentinel
RayDestinations(ray) == {ray[m].square : m \in 1 .. (FirstSentinel(ray) - 1)}

\* the destinations of a piece from a square, over its rays
Destinations(mv, piece_type, from) ==
    UNION {RayDestinations(mv[piece_type][from][dir]) :
              dir \in 0 .. (number_of_movement_directions[piece_type + 1] - 1)}

\* C16: in the table init_movements builds, for each of King, Queen, Rook, Bishop and
\* Knight and every two distinct squares A and B, some ray from A holds B as a destination
\* if and only if some ray from B holds A; and verify_movements, which scans for it, finds
\* the one exactly when the table holds it
C16_MovementsSymmetric ==
    (pc \in {"verify_movements", "verified"} /\ verified.squareA # verified.squareB) =>
        /\ (verified.squareB \in Destinations(board_movements, verified.piece,
                                              verified.squareA))
            <=> (verified.squareA \in Destinations(board_movements, verified.piece,
                                                  verified.squareB))
        /\ pc = "verified" =>
               /\ verified.movement_possible
                   <=> (verified.squareB \in Destinations(board_movements, verified.piece,
                                                         verified.squareA))
               /\ verified.movement_possible <=> verified.reverse_movement_possible

\* a bishop goes from a1 to h8 and back on the board of 64 squares
C16_Witness ==
    /\ pc = "verified"
    /\ square_bits = SQUARE_BITS
    /\ verified.piece = BISHOP
    /\ verified.squareA = Sq(FileLetter.a, 1)
    /\ verified.squareB = Sq(FileLetter.h, 8)
    /\ verified.movement_possible
    /\ verified.reverse_movement_possible

\* the squares of the board one file and two ranks, or two files and one rank, away
KnightOffsets(sb, from) ==
    {to \in Squares(sb) :
        {Distance(FileOf(sb, from), FileOf(sb, to)),
         Distance(RankOf(sb, from), RankOf(sb, to))} = {1, 2}}

\* C17: for every origin square each of the knight's eight rays holds at most one
\* destination, followed by the sentinel, the destinations of the eight rays are exactly
\* the squares of the board at the eight knight offsets from the origin, and for the
\* knight on b1 they are exactly a3, c3 and d2
C17_KnightRays ==
    (pc \in {"verify_movements", "verified"}) =>
        /\ \A dir \in 0 .. (number_of_movement_directions[KNIGHT + 1] - 1) :
               With(board_movements[KNIGHT][verified.squareA][dir], LAMBDA ray :
                   \/ ray[1] = SentinelMovement
                   \/ /\ ray[1].square \in Squares(square_bits)
                      /\ ray[1].vector = bitvector(ray[1].square)
                      /\ ray[2] = SentinelMovement)
        /\ Destinations(board_movements, KNIGHT, verified.squareA)
               = KnightOffsets(square_bits, verified.squareA)
        /\ (square_bits = SQUARE_BITS /\ verified.squareA = Sq(FileLetter.b, 1)) =>
               Destinations(board_movements, KNIGHT, verified.squareA)
                   = {Sq(FileLetter.a, 3), Sq(FileLetter.c, 3), Sq(FileLetter.d, 2)}

\* verify_movements finds the knight's move from b1 to a3
C17_Witness ==
    /\ pc = "verified"
    /\ square_bits = SQUARE_BITS
    /\ verified.piece = KNIGHT
    /\ verified.squareA = Sq(FileLetter.b, 1)
    /\ verified.squareB = Sq(FileLetter.a, 3)
    /\ verified.movement_possible

\* the entry (numbered from 1) at which the scan of ScanStop stops, or NUM_MOVEMENTS+2 when
\* it reads past the NUM_MOVEMENTS+1 entries of the ray
RECURSIVE ScanStopWithin(_, _, _)
ScanStopWithin(ray, board_vector, m) ==
    IF m > NUM_MOVEMENTS + 1 THEN m
    ELSE IF (ray[m].vector \cap board_vector) = {}
         THEN ScanStopWithin(ray, board_vector, m + 1)
         ELSE m

\* C18: for every position index_to_position decodes, every piece kind, every origin
\* square and every direction below the kind's count, the scan along the ray while
\* (vector & board_vector) == 0 stops within the NUM_MOVEMENTS+1 entries of the ray, at
\* the sentinel or at an entry whose square is occupied
C18_ScanStopsWithinRay ==
    (pc \in {"decoded", "encoded"} /\ decoded.ok) =>
        \A piece_type \in 0 .. (NUM_PIECES - 1), origin \in Squares(square_bits) :
            \A dir \in 0 .. (number_of_movement_directions[piece_type + 1] - 1) :
                With(board_movements[piece_type][origin][dir], LAMBDA ray :
                    With(ScanStopWithin(ray, decoded.p.board_vector, 1), LAMBDA stop :
                        /\ stop <= NUM_MOVEMENTS + 1
                        /\ \/ ray[stop] = SentinelMovement
                           \/ /\ ray[stop].square \in decoded.p.board_vector
                              /\ ray[stop].vector = bitvector(ray[stop].square)))

\* on the board of 64 squares the scan of the rook's ray from a1 to the right passes
\* seven empty squares and stops at the sentinel, the last entry of the ray
C18_Witness ==
    /\ pc = "decoded"
    /\ decoded.ok
    /\ square_bits = SQUARE_BITS
    /\ ScanStopWithin(board_movements[ROOK][Sq(FileLetter.a, 1)][0],
                      decoded.p.board_vector, 1) = NUM_MOVEMENTS + 1

(***************************************************************************)
(* One pass of the for loop of main with its indices taken in any order,   *)
(* on a part of create_tablebase's K+Q vs K table as the build has it when *)
(* pass 5 starts: two White-to-move positions that are not won yet, and    *)
(* the Black-to-move positions after a white move that pass 5 propagates.  *)
(* The build of the source reaches pass 5 with these entries; on the small *)
(* board of Spec no pass propagates two lost positions of different        *)
(* stalemate_cnt that a white move leads to from one position.             *)
(***************************************************************************)
\* White to move, k a8, Q d3, K b4 or c4
KingOnB4 == KQK_index(WHITE, Sq(FileLetter.b, 4), Sq(FileLetter.a, 8), Sq(FileLetter.d, 3))
KingOnC4 == KQK_index(WHITE, Sq(FileLetter.c, 4), Sq(FileLetter.a, 8), Sq(FileLetter.d, 3))

\* after Kc5 from either: Black to move and lost in 5, its first move counted off in
\* pass 2
AfterKingToC5 ==
    KQK_index(BLACK, Sq(FileLetter.c, 5), Sq(FileLetter.a, 8), Sq(FileLetter.d, 3))

\* after some of the queen moves from either: Black to move and lost in 5, its first move
\* counted off in pass 0
AfterQueenMove ==
    {KQK_index(BLACK, Sq(FileLetter.b, 4), Sq(FileLetter.a, 8), queen) :
        queen \in {Sq(FileLetter.b, 5), Sq(FileLetter.d, 5), Sq(FileLetter.d, 7)}}
    \cup {KQK_index(BLACK, Sq(FileLetter.c, 4), Sq(FileLetter.a, 8), queen) :
              queen \in {Sq(FileLetter.b, 1), Sq(FileLetter.b, 3), Sq(FileLetter.d, 5),
                         Sq(FileLetter.d, 7)}}

\* tb->entries at those indices when pass 5 starts
PassFiveEntries ==
    [i \in {KingOnB4, KingOnC4, AfterKingToC5} \cup AfterQueenMove |->
        IF i = KingOnB4 THEN Entry(33, 255, 255)
        ELSE IF i = KingOnC4 THEN Entry(29, 255, 255)
        ELSE IF i = AfterKingToC5 THEN Entry(PNTM_WINS_PROPAGATION_NEEDED, 5, 3)
        ELSE Entry(PNTM_WINS_PROPAGATION_NEEDED, 5, 1)]

InitPass ==
    /\ tb = create_tablebase
    /\ square_bits = SQUARE_BITS
    /\ entries = PassFiveEntries
    /\ pc = "for"
    /\ max_moves_to_win = 1
    /\ moves_to_win = 5
    /\ progress_made = 0
    /\ index = 0
    /\ pending_at_loop_entry = {}
    /\ decoded = [ok |-> FALSE, p |-> ZeroPosition]
    /\ current_index = 0
    /\ verified = NotVerifying
    /\ threads = NoThreads
    /\ cookie = NoCookie
    /\ called = NoCall

\* the body of the for loop at any index that passes the test of line 1364
PropagateInAnyOrder ==
    /\ pc = "for"
    /\ \E i \in Ahead :
          /\ ToPropagate(entries, i, moves_to_win)
          /\ entries' = propagate_move_within_table(tb, square_bits, board_movements, entries,
                                                    i, moves_to_win)
    /\ progress_made' = progress_made + 1
    /\ UNCHANGED <<verified, threads, called, cookie, tb, square_bits, pc, max_moves_to_win, moves_to_win,
                   index, pending_at_loop_entry, codec_vars>>

NextPass ==
    \/ PropagateInAnyOrder
    \/ PassComplete

SpecPass == InitPass /\ [][NextPass]_vars

\* the for loop of lines 1363-1370 as the source runs it, in ascending order of index, on
\* the entries e
RECURSIVE for_loop(_, _, _, _, _)
for_loop(t, sb, mv, e, mate_in_count) ==
    With({i \in DOMAIN e : i < max_index(t, sb) /\ ToPropagate(e, i, mate_in_count)},
         LAMBDA to_propagate :
             IF to_propagate = {} THEN e
             ELSE With(propagate_move_within_table(
                           t, sb, mv, e,
                           CHOOSE i \in to_propagate : \A j \in to_propagate : i <= j,
                           mate_in_count),
                       LAMBDA propagated : for_loop(t, sb, mv, propagated, mate_in_count)))

\* C19: the table a pass leaves does not depend on the order in which the pass takes its
\* indices: whatever the order, movecnt, mate_in_cnt and stalemate_cnt of every entry
\* are what the pass in ascending order of index leaves
C19_PassOrderInsensitive ==
    (pc = "while") =>
        entries = for_loop(create_tablebase, SQUARE_BITS, movements_64, PassFiveEntries, 5)

\* what does hold of the pass in any order: movecnt and mate_in_cnt of every entry are
\* those of the pass in ascending order, and only stalemate_cnt follows the order
C19_MovecntAndMateInOrderInsensitive ==
    (pc = "while") =>
        With(for_loop(create_tablebase, SQUARE_BITS, movements_64, PassFiveEntries, 5),
             LAMBDA ascending :
                 \A i \in DOMAIN entries :
                     /\ entries[i].movecnt = ascending[i].movecnt
                     /\ entries[i].mate_in_cnt = ascending[i].mate_in_cnt)

\* the entries of `after` that differ from those of `before` are at indices of S
ChangesOnlyAt(before, after, S) ==
    \A i \in DOMAIN before : after[i] # before[i] => i \in S

\* what each of the operations on one entry makes of the table e at index i
PerEntryOperations(e, i, mate_in_count, stalemate_count) ==
    { mark_propagated(e, i),
      white_wins(e, i, mate_in_count, stalemate_count),
      black_wins(e, i, mate_in_count, stalemate_count),
      add_one_to_white_wins(e, i, mate_in_count, stalemate_count),
      add_one_to_black_wins(e, i, mate_in_count, stalemate_count),
      initialize_index_as_illegal(e, i),
      initialize_index_with_white_mated(e, i),
      initialize_index_with_black_mated(e, i),
      initialize_index_with_stalemate(e, i),
      initialize_index_with_movecnt(e, i, mate_in_count) }

\* C20: each operation on one entry changes at most the entry at the index it is given,
\* and propagate_move_within_table(P) changes no entry other than P and the predecessor
\* indices it computes, so no entry other than P with the side to move of P; the
\* initialization of an index changes the entry of that index only
C20_Frame ==
    [][/\ (pc = "for" /\ pc' = "for" /\ index' > index) =>
              /\ ChangesOnlyAt(entries, entries', {index' - 1} \cup PredecessorsOf(index' - 1))
              /\ \A i \in DOMAIN entries :
                     (entries'[i] # entries[i] /\ i # index' - 1) =>
                         (i % 2) # ((index' - 1) % 2)
              /\ \A i \in {index' - 1} \cup PredecessorsOf(index' - 1) :
                     \A after \in PerEntryOperations(
                                       entries, i, moves_to_win + 1,
                                       get_stalemate_count(entries, index' - 1) + 1) :
                         ChangesOnlyAt(entries, after, {i})
       /\ (pc = "initialize_tablebase" /\ pc' = "futurebases") =>
              \A i \in DOMAIN entries :
                  i < max_index(tb, square_bits) =>
                      ChangesOnlyAt(entries,
                                    initialize_index(tb, square_bits, board_movements,
                                                     entries, i),
                                    {i})]_vars

\* C20 witness: the propagation just made marked its index and wrote its mate-in count
\* plus one into a predecessor entry, of the other side to move
C20_Witness ==
    /\ JustPropagated
    /\ entries[index - 1].movecnt
           \in {PTM_WINS_PROPAGATION_DONE, PNTM_WINS_PROPAGATION_DONE}
    /\ \E c \in PredecessorsOf(index - 1) :
          /\ (c % 2) # ((index - 1) % 2)
          /\ entries[c].mate_in_cnt = entries[index - 1].mate_in_cnt + 1

(***************************************************************************)
(* Two propagations of one pass run at once ("Designed to multi-thread").  *)
(* The for loop of main hands its next index to one thread and another     *)
(* index of the same pass to a second thread; the two threads run          *)
(* propagate_move_within_table on a table they share, one call of          *)
(* mark_propagated, white_wins, black_wins, add_one_to_white_wins or       *)
(* add_one_to_black_wins at a time.  The table of main is left as it is,   *)
(* so that what the threads leave can be held against what main makes of   *)
(* the same two indices.                                                   *)
(***************************************************************************)
\* the tablebases on which two propagations are run at once
ConcurrentConfigs == {KvK, Tablebase(<<KING, KING, ROOK>>, <<WHITE, BLACK, WHITE>>)}

\* the second thread takes one of the next MaxAhead indices of the pass
MaxAhead == 3

InitConcurrent == InitBuild(ConcurrentConfigs)

\* the calls of propagate_move_within_table on entries of the table, numbered from 0:
\* mark_propagated on the parent, then one call for each predecessor index
propagation_call(e, parent_index, indices, k) ==
    IF k = 0 THEN mark_propagated(e, parent_index)
    ELSE propagate_to_index(e, parent_index, parent_index % 2, indices[k])

\* the entry call k works on
entry_of_call(parent_index, indices, k) == IF k = 0 THEN parent_index ELSE indices[k]

\* atomic_operation with the fault of a call that is not atomic: it works on the entry as
\* it was when the call was entered
atomic_operation_on_entry_read_before(shared, loaded, target) ==
    [shared EXCEPT ![target] = loaded]

\* "Keep atomic operations confined to single functions": the table a call works on, given
\* the table the threads share when the call takes effect and the entry as it was when the
\* call was entered
atomic_operation(shared, loaded, target) == shared

\* the indices of the pass after its next one, in ascending order, at most MaxAhead of them
RECURSIVE IndicesAhead(_, _)
IndicesAhead(S, n) ==
    IF n = 0 \/ S = {} THEN {}
    ELSE With(CHOOSE i \in S : \A j \in S : i <= j, LAMBDA first :
             {first} \cup IndicesAhead(S \ {first}, n - 1))

\* the for loop hands the index it has reached and one of the indices after it to the two
\* threads
Fork ==
    /\ pc = "for"
    /\ ~threads.running
    /\ ~PassIsOver
    /\ \E first \in {NextToPropagate} :
          \E second \in IndicesAhead({i \in Ahead : i > first
                                                   /\ ToPropagate(entries, i, moves_to_win)},
                                     MaxAhead) :
              threads' =
                  [running |-> TRUE,
                   table |-> entries,
                   parent |-> <<first, second>>,
                   indices |-> <<predecessor_indices(
                                     tb, square_bits, board_movements,
                                     index_to_position(tb, square_bits, first).p, 0, 0),
                                 predecessor_indices(
                                     tb, square_bits, board_movements,
                                     index_to_position(tb, square_bits, second).p, 0, 0)>>,
                   returned |-> <<0, 0>>,
                   in_call |-> <<FALSE, FALSE>>,
                   loaded |-> <<ZeroEntry, ZeroEntry>>,
                   overtaken |-> FALSE]
    /\ UNCHANGED <<cookie, tb, square_bits, entries, pc, max_moves_to_win, moves_to_win, progress_made,
                   index, pending_at_loop_entry, codec_vars, verified, called>>

Threads == {1, 2}

\* the entry the next call of thread t works on
NextEntry(t) ==
    entry_of_call(threads.parent[t], threads.indices[t], threads.returned[t])

\* the entries thread t has still to work on
EntriesAhead(t) ==
    {entry_of_call(threads.parent[t], threads.indices[t], k) :
        k \in threads.returned[t] .. Len(threads.indices[t])}

\* thread t has made all the calls of its propagation
Finished(t) == threads.returned[t] = Len(threads.indices[t]) + 1

\* thread t enters its next call
EnterCall ==
    /\ threads.running
    /\ \E t \in Threads :
          /\ ~Finished(t)
          /\ ~threads.in_call[t]
          /\ threads' = [threads EXCEPT !.in_call[t] = TRUE,
                                        !.loaded[t] = threads.table[NextEntry(t)]]
    /\ UNCHANGED <<cookie, tb, square_bits, entries, pc, max_moves_to_win, moves_to_win, progress_made,
                   index, pending_at_loop_entry, codec_vars, verified, called>>

\* the call of thread t takes effect, all at once, and returns
ReturnFromCall ==
    /\ threads.running
    /\ \E t \in Threads :
          /\ threads.in_call[t]
          /\ threads' =
                 [threads EXCEPT
                     !.table = propagation_call(
                                   atomic_operation(threads.table, threads.loaded[t],
                                                    NextEntry(t)),
                                   threads.parent[t], threads.indices[t],
                                   threads.returned[t]),
                     !.returned[t] = @ + 1,
                     !.in_call[t] = FALSE,
                     !.overtaken = @ \/ (t = 2 /\ NextEntry(2) \in EntriesAhead(1))]
    /\ UNCHANGED <<cookie, tb, square_bits, entries, pc, max_moves_to_win, moves_to_win, progress_made,
                   index, pending_at_loop_entry, codec_vars, verified, called>>

\* both threads are through
Join ==
    /\ threads.running
    /\ \A t \in Threads : Finished(t)
    /\ threads' = NoThreads
    /\ UNCHANGED <<cookie, tb, square_bits, entries, pc, max_moves_to_win, moves_to_win, progress_made,
                   index, pending_at_loop_entry, codec_vars, verified, called>>

\* main goes on when no threads run
NextConcurrent ==
    \/ ~threads.running /\ Next
    \/ Fork
    \/ EnterCall
    \/ ReturnFromCall
    \/ Join

SpecConcurrent == InitConcurrent /\ [][NextConcurrent]_vars

\* what main makes of the table e with the propagation of index i, then of index j
OneAfterTheOther(e, i, j, mate_in_count) ==
    propagate_move_within_table(
        tb, square_bits, board_movements,
        propagate_move_within_table(tb, square_bits, board_movements, e, i, mate_in_count),
        j, mate_in_count)

\* C21: when two propagations of distinct parents of one pass have run at once, their calls
\* of mark_propagated, white_wins, black_wins, add_one_to_white_wins and
\* add_one_to_black_wins interleaved in any way but each atomic, the movecnt of every
\* entry is the movecnt that the two propagations run one after the other, in either
\* order, leave
C21_ConcurrentMovecnt ==
    (threads.running /\ Finished(1) /\ Finished(2)) =>
        /\ threads.parent[1] # threads.parent[2]
        /\ \A after \in {OneAfterTheOther(entries, threads.parent[1], threads.parent[2],
                                          moves_to_win),
                         OneAfterTheOther(entries, threads.parent[2], threads.parent[1],
                                          moves_to_win)} :
               \A i \in DOMAIN entries : threads.table[i].movecnt = after[i].movecnt

\* C21 witness: two propagations that count a move off the same entry have run at once,
\* and the second thread came to that entry before the first
C21_Witness ==
    /\ threads.running
    /\ Finished(1)
    /\ Finished(2)
    /\ threads.overtaken
    /\ \E c \in DOMAIN entries :
          /\ c \in {threads.indices[1][k] : k \in DOMAIN threads.indices[1]}
          /\ c \in {threads.indices[2][k] : k \in DOMAIN threads.indices[2]}
          /\ entries[c].movecnt \in 2 .. MAX_MOVECNT
          /\ threads.table[c].movecnt = entries[c].movecnt - 2

(***************************************************************************)
(* The per-entry operations on their own: one call of mark_propagated,     *)
(* white_wins, black_wins, add_one_to_white_wins or add_one_to_black_wins  *)
(* on an entry in any of the shapes the build gives entries, with what the *)
(* call prints on stderr.                                                  *)
(***************************************************************************)
\* the mate-in and stalemate counts of the calls and of the entries they are made on
MaxCount == 3

\* the shapes of an entry in a build: illegal, counting moves and untouched, stalemate,
\* counting moves with moves counted off, won, and never written
EntryShapes ==
    {Entry(ILLEGAL_POSITION, 255, 255), Entry(MAX_MOVECNT, 255, 0), ZeroEntry}
    \cup {Entry(movecnt, 255, 255) : movecnt \in {1, 2, MAX_MOVECNT - 1}}
    \cup {Entry(movecnt, mate_in_cnt, stalemate_cnt) :
             movecnt \in {1, 2}, mate_in_cnt \in 1 .. MaxCount, stalemate_cnt \in 1 .. MaxCount}
    \cup {Entry(movecnt, mate_in_cnt, stalemate_cnt) :
             movecnt \in {PTM_WINS_PROPAGATION_NEEDED, PTM_WINS_PROPAGATION_DONE,
                          PNTM_WINS_PROPAGATION_NEEDED, PNTM_WINS_PROPAGATION_DONE},
             mate_in_cnt \in 0 .. MaxCount, stalemate_cnt \in 0 .. MaxCount}

\* a table of one entry White to move and one Black to move, both of one shape, and a
\* call about to be made
InitCall ==
    /\ tb = KvK
    /\ square_bits = SquareBits
    /\ \E shape \in EntryShapes : entries = [i \in {0, 1} |-> shape]
    /\ \E function \in PerEntryFunctions \cup {"get_mate_in_count"}, i \in {0, 1},
          mate_in_count \in 1 .. MaxCount, stalemate_count \in 1 .. MaxCount :
           called = [function |-> function, index |-> i, mate_in_count |-> mate_in_count,
                     stalemate_count |-> stalemate_count, stderr |-> << >>,
                     returned |-> "void"]
    /\ pc = "call"
    /\ max_moves_to_win = 0
    /\ moves_to_win = 0
    /\ progress_made = 0
    /\ index = 0
    /\ pending_at_loop_entry = {}
    /\ decoded = [ok |-> FALSE, p |-> ZeroPosition]
    /\ current_index = 0
    /\ verified = NotVerifying
    /\ threads = NoThreads
    /\ cookie = NoCookie

\* the call is made
Call ==
    /\ pc = "call"
    /\ entries' = call_result(entries, called)
    /\ called' = [called EXCEPT !.stderr = call_stderr(entries, called),
                                 !.returned = call_returned(entries, called)]
    /\ pc' = "returned"
    /\ UNCHANGED <<cookie, tb, square_bits, max_moves_to_win, moves_to_win, progress_made, index,
                   pending_at_loop_entry, codec_vars, verified, threads>>

NextCall == Call

SpecCall == InitCall /\ [][NextCall]_vars

\* the diagnostics of a call on an index with the wrong side to move
WrongSideToMove ==
    {"White_wins in a black to move position...", "Black_wins in a white to move position...",
     "add_one_to_white_wins in a white to move position",
     "add_one_to_black_wins in a black to move position"}

\* the diagnostics of a win signalled at an entry the other side has won
AlreadyWonByOther ==
    {"White_wins in a position where black already won?!",
     "Black_wins in a position where white already won?!"}

\* the diagnostic of mark_propagated on an entry that is unresolved or completed
NotToPropagate == {"Propagation attempt on a completed or unresolved position"}

\* the call that returns printed one of the diagnostics D
Printed(D) == \E k \in DOMAIN called'.stderr : called'.stderr[k] \in D

\* C22: whenever white_wins, black_wins, add_one_to_white_wins, add_one_to_black_wins or
\* mark_propagated prints the diagnostic of a call on an index with the wrong side to move,
\* of a win signalled at an entry already won by the other side, or of an unresolved or
\* completed entry marked propagated, the call leaves movecnt, mate_in_cnt and
\* stalemate_cnt of the entry as they were
C22_DiagnosedCallsPreserveEntry ==
    [][(pc = "call" /\ pc' = "returned"
        /\ Printed(WrongSideToMove \cup AlreadyWonByOther \cup NotToPropagate))
           => entries'[called.index] = entries[called.index]]_vars

\* what does hold of the diagnosed calls: the entry is left as it was by every call that
\* prints a diagnostic, but for white_wins and black_wins on an index with the wrong side
\* to move, which write the win of the side not to move (movecnt 0) when the entry is not
\* won, and the add_one functions that print that the mate-in count dropped
C22_DiagnosedCallsButWrongSideWins ==
    [][(pc = "call" /\ pc' = "returned" /\ called'.stderr # << >>)
           => \/ entries'[called.index] = entries[called.index]
              \/ /\ called.function \in {"white_wins", "black_wins"}
                 /\ Printed(WrongSideToMove)
                 /\ ~PTM_wins(entries, called.index)
                 /\ ~PNTM_wins(entries, called.index)
                 /\ entries'[called.index]
                        = Entry(PNTM_WINS_PROPAGATION_NEEDED, called.mate_in_count,
                                called.stalemate_count)
              \/ /\ called.function \in {"add_one_to_white_wins", "add_one_to_black_wins"}
                 /\ called'.stderr \in {<<"mate-in count dropped in add_one_to_white_wins?">>,
                                        <<"mate-in count dropped in add_one_to_black_wins?">>}
                 /\ entries'[called.index].movecnt = entries[called.index].movecnt - 1]_vars

\* the movecnt values that record a win
WinStates ==
    {PTM_WINS_PROPAGATION_NEEDED, PTM_WINS_PROPAGATION_DONE,
     PNTM_WINS_PROPAGATION_NEEDED, PNTM_WINS_PROPAGATION_DONE}

\* the last step was a pass of the for loop body: the propagation of index' - 1
Propagation == pc = "for" /\ pc' = "for" /\ index' > index

\* C23: once an entry records a win (movecnt 252, 254, 0 or 253) no later call of
\* white_wins, black_wins, add_one_to_white_wins or add_one_to_black_wins made on it in the
\* build changes its movecnt, mate_in_cnt or stalemate_cnt; the only later change of the
\* entry is that of mark_propagated, from 252 to 254 or from 0 to 253, when the entry
\* itself is propagated
C23_WinsAreFinal ==
    [][Initialized =>
          /\ \A i \in Indices :
                entries[i].movecnt \in WinStates =>
                    \/ entries'[i] = entries[i]
                    \/ /\ Propagation
                       /\ i = index' - 1
                       /\ needs_propagation(entries, i)
                       /\ entries'[i] =
                              [entries[i] EXCEPT !.movecnt =
                                  IF @ = PTM_WINS_PROPAGATION_NEEDED
                                  THEN PTM_WINS_PROPAGATION_DONE
                                  ELSE PNTM_WINS_PROPAGATION_DONE]
          /\ Propagation =>
                \A c \in PredecessorsOf(index' - 1) :
                    entries[c].movecnt \in WinStates =>
                        propagate_to_index(mark_propagated(entries, index' - 1), index' - 1,
                                           (index' - 1) % 2, c)[c] = entries[c]]_vars

\* C23 witness: the propagation just made called add_one_to_white_wins or
\* add_one_to_black_wins on an entry the player to move had won, and white_wins or
\* black_wins on an entry won and propagated before; both entries are as they were
C23_Witness ==
    /\ JustPropagated
    /\ \E c \in PredecessorsOf(index - 1) :
          /\ PTM_wins(entries, index - 1)
          /\ entries[c] = Entry(PTM_WINS_PROPAGATION_DONE, 0, 0)
    /\ \E i \in Indices :
          /\ PNTM_wins(entries, i)
          /\ \E c \in PredecessorsOf(i) :
                /\ entries[c].movecnt = PTM_WINS_PROPAGATION_DONE
                /\ entries[c].mate_in_cnt < entries[i].mate_in_cnt

(***************************************************************************)
(* position_to_index and max_index on their own, in the 32 bits of int32,  *)
(* for tablebases of 2 to MAX_MOBILES mobiles on the board of 64 squares.  *)
(***************************************************************************)
\* a tablebase of n mobiles: the two kings, then queens of alternating colour
TablebaseOf(n) ==
    [num_mobiles |-> n,
     mobile_piece_type |-> [piece \in 0 .. (n - 1) |-> IF piece < 2 THEN KING ELSE QUEEN],
     mobile_piece_color |-> [piece \in 0 .. (n - 1) |-> IF piece % 2 = 0 THEN WHITE ELSE BLACK]]

\* the two squares each mobile is put on, all mobiles on files of their own: a square of
\* the first rank and, for the first five mobiles (the ones whose six bits lie within the
\* 32), the square opposite, for the others the square of the second rank
SquareOf(piece, far) ==
    IF far = 0 THEN piece ELSE IF piece < 5 THEN 63 - piece ELSE piece + 8

\* the positions of tablebase t with the mobiles on those squares
PositionsOf(t) ==
    {[ZeroPosition EXCEPT !.side_to_move = side_to_move,
                          !.mobile_piece_position =
                              [piece \in 0 .. (MAX_MOBILES - 1) |->
                                  IF piece < t.num_mobiles THEN SquareOf(piece, far[piece])
                                  ELSE 0]] :
        side_to_move \in {WHITE, BLACK}, far \in [0 .. (t.num_mobiles - 1) -> {0, 1}]}

InitWidth ==
    /\ \E n \in 2 .. MAX_MOBILES : tb = TablebaseOf(n)
    /\ square_bits = SQUARE_BITS
    /\ \E position \in PositionsOf(tb) : decoded = [ok |-> TRUE, p |-> position]
    /\ \E shift_at_width \in {"masked", "zero"} :
           called = [function |-> "position_to_index", shift_at_width |-> shift_at_width,
                     index |-> {}, max_index |-> {}]
    /\ entries = << >>
    /\ pc = "call"
    /\ max_moves_to_win = 0
    /\ moves_to_win = 0
    /\ progress_made = 0
    /\ index = 0
    /\ pending_at_loop_entry = {}
    /\ current_index = 0
    /\ verified = NotVerifying
    /\ threads = NoThreads
    /\ cookie = NoCookie

\* max_index(tb) and position_to_index(tb, &position) are called
CallInt32 ==
    /\ pc = "call"
    /\ called' = [called EXCEPT
                     !.index = position_to_index_int32(tb, decoded.p, called.shift_at_width),
                     !.max_index = max_index_int32(tb, called.shift_at_width)]
    /\ pc' = "returned"
    /\ UNCHANGED <<cookie, tb, square_bits, entries, max_moves_to_win, moves_to_win, progress_made,
                   index, pending_at_loop_entry, codec_vars, verified, threads>>

NextWidth == CallInt32

SpecWidth == InitWidth /\ [][NextWidth]_vars

\* C24: for every num_mobiles in 2..8, position_to_index computed in int32 maps distinct
\* (side to move, squares of the mobiles) to distinct indices, and max_index does not
\* overflow: it is 2 * 64^num_mobiles - 1, the index of all one-bits
C24_Int32IndexInjective ==
    pc = "returned" =>
        /\ \A other \in PositionsOf(tb) :
               other # decoded.p =>
                   position_to_index_int32(tb, other, called.shift_at_width) # called.index
        /\ called.max_index = 0 .. (SQUARE_BITS * tb.num_mobiles)

\* what does hold: up to five mobiles the index computed in int32 is the index of the
\* position, all of its bits (so distinct positions have distinct indices), and up to
\* four mobiles max_index is computed without overflow; for five mobiles 2<<30
\* overflows int, though the value converted to int32 is 2 * 64^5 - 1
C24_Int32IndexUpToFiveMobiles ==
    (pc = "returned" /\ tb.num_mobiles <= 5) =>
        /\ called.index = index_of_position(tb, decoded.p)
        /\ called.max_index = 0 .. (SQUARE_BITS * tb.num_mobiles)

(***************************************************************************)
(* The moves of a position by the rules of movement of the pieces, on the  *)
(* files and ranks of the board, with no use of the movement table.        *)
(***************************************************************************)
\* the steps of each kind of piece, as <<files, ranks>>
StepsOf(piece_type) ==
    CASE piece_type \in {KING, QUEEN} ->
             {<<1, 0>>, <<-1, 0>>, <<0, 1>>, <<0, -1>>, <<-1, 1>>, <<1, 1>>, <<-1, -1>>,
              <<1, -1>>}
      [] piece_type = ROOK -> {<<1, 0>>, <<-1, 0>>, <<0, 1>>, <<0, -1>>}
      [] piece_type = BISHOP -> {<<-1, 1>>, <<1, 1>>, <<-1, -1>>, <<1, -1>>}
      [] piece_type = KNIGHT ->
             {<<2, 1>>, <<2, -1>>, <<-2, 1>>, <<-2, -1>>, <<1, 2>>, <<1, -2>>, <<-1, 2>>,
              <<-1, -2>>}

\* how many steps a piece makes in one move
ReachOf(piece_type) == maximum_movements_in_one_direction[piece_type + 1]

\* the squares the mobiles of index i stand on
Occupied(i) == {SquareInIndex(i, mobile) : mobile \in Mobiles}

\* the squares the mobiles of the side to move at index i stand on
OccupiedByMover(i) ==
    {SquareInIndex(i, mobile) : mobile \in {m \in Mobiles : tb.mobile_piece_color[m] = i % 2}}

\* the square of the enemy king of the side to move at index i
EnemyKingSquare(i) ==
    SquareInIndex(i, IF i % 2 = WHITE THEN BLACK_KING ELSE WHITE_KING)

\* what lies along the steps of one kind from file, rank at index i, at most `reach` steps
\* on: the number of empty squares passed, and the square that stops the piece, -1 when
\* that is the edge of the board or the end of its reach
RECURSIVE Along(_, _, _, _, _, _)
Along(i, file, rank, step, reach, passed) ==
    LET next_file == file + step[1]
        next_rank == rank + step[2]
        next == next_rank * Files(square_bits) + next_file
    IN  IF reach = 0
           \/ next_file < 0 \/ next_file >= Files(square_bits)
           \/ next_rank < 0 \/ next_rank >= NUM_SQUARES(square_bits) \div Files(square_bits)
        THEN [empty |-> passed, stopped_by |-> -1]
        ELSE IF next \in Occupied(i)
             THEN [empty |-> passed, stopped_by |-> next]
             ELSE Along(i, next_file, next_rank, step, reach - 1, passed + 1)

\* the rays of the mobiles of the side to move at index i, each as Along gives it
RaysOfMover(i) ==
    {[mobile |-> mobile, step |-> step,
      ray |-> Along(i, FileOf(square_bits, SquareInIndex(i, mobile)),
                    RankOf(square_bits, SquareInIndex(i, mobile)), step,
                    ReachOf(tb.mobile_piece_type[mobile]), 0)] :
        mobile \in {m \in Mobiles : tb.mobile_piece_color[m] = i % 2},
        step \in UNION {StepsOf(tb.mobile_piece_type[m]) : m \in Mobiles}}

\* the rays of RaysOfMover that are rays of the kind of their mobile
RaysByRule(i) ==
    {r \in RaysOfMover(i) : r.step \in StepsOf(tb.mobile_piece_type[r.mobile])}

RECURSIVE SumOfEmpty(_)
SumOfEmpty(rays) ==
    IF rays = {} THEN 0
    ELSE LET r == CHOOSE x \in rays : TRUE
         IN  r.ray.empty + SumOfEmpty(rays \ {r})

\* the rays whose first occupied square holds an enemy piece
CapturingRays(i) ==
    {r \in RaysByRule(i) : r.ray.stopped_by # -1 /\ r.ray.stopped_by \notin OccupiedByMover(i)}

\* the side to move at index i can take the enemy king
CanTakeKing(i) == \E r \in CapturingRays(i) : r.ray.stopped_by = EnemyKingSquare(i)

\* the number of the claim: empty squares in reach, and rays that end on an enemy piece
MovesByRule(i) == SumOfEmpty(RaysByRule(i)) + Cardinality(CapturingRays(i))

\* C25: for every index that decodes to a position in which the side to move cannot take
\* the enemy king the initializer stores movecnt = the number of empty squares its mobiles
\* reach along their rays before the first occupied square plus the number of rays whose
\* first occupied square holds an enemy piece, with mate_in_cnt 255 and stalemate_cnt 255,
\* and (251, 255, 0) when that number is 0
C25_InitializerCountsMoves ==
    pc = "futurebases" =>
        \A i \in Indices :
            (Decodable(i) /\ ~CanTakeKing(i)) =>
                With(MovesByRule(i), LAMBDA count :
                    entries[i] = IF count = 0 THEN Entry(MAX_MOVECNT, 255, 0)
                                 ELSE Entry(count, 255, 255))

\* C25 witness: the initializer has run on a table of three mobiles and has counted, at
\* one index, the capture of an enemy piece that is not the king and, at another, the
\* empty squares a queen, rook or bishop slides over
C25_Witness ==
    /\ pc = "futurebases"
    /\ tb.num_mobiles = 3
    /\ \E i \in Indices :
          /\ Decodable(i)
          /\ ~CanTakeKing(i)
          /\ CapturingRays(i) # {}
          /\ entries[i] = Entry(MovesByRule(i), 255, 255)
    /\ \E i \in Indices :
          /\ Decodable(i)
          /\ ~CanTakeKing(i)
          /\ \E r \in RaysByRule(i) :
                r.ray.empty > 1 /\ tb.mobile_piece_type[r.mobile] \in {QUEEN, ROOK, BISHOP}
          /\ entries[i] = Entry(MovesByRule(i), 255, 255)

\* the indices initialize_tablebase writes: for (index=0; index < max_index_static; index++)
WrittenByInitializer == {i \in Indices : i < max_index(tb, square_bits)}

ParentsOf(i) ==
    IF ~Decodable(i) THEN {}
    ELSE {p \in {move.index : move \in {m \in ForwardMoves(i) : ~m.capture}} :
             /\ p \in Indices
             /\ i \in PredecessorsOf(p)
             /\ entries[p].movecnt \in {PTM_WINS_PROPAGATION_DONE, PNTM_WINS_PROPAGATION_DONE}
             /\ get_stalemate_count(entries, p) < STALEMATE_COUNT}

\* the parents that called white_wins or black_wins on index i: the side not to move at
\* the parent, which is to move at i, wins there
WinSignals(i) == {p \in ParentsOf(i) : PNTM_wins(entries, p)}

\* the parents that called add_one_to_white_wins or add_one_to_black_wins on index i
LostMoves(i) == {p \in ParentsOf(i) : PTM_wins(entries, p)}

\* get_mate_in_count(tb, parent_index)+1 of the calls of the parents P
MateInValues(P) == {get_mate_in_count(entries, p) + 1 : p \in P}

Least(S) == CHOOSE x \in S : \A y \in S : x <= y
Greatest(S) == CHOOSE x \in S : \A y \in S : x >= y

\* the entries of a finished build that the initializer wrote as counts of moves
CountedAtFirst ==
    {i \in WrittenByInitializer : Decodable(i) /\ ~CanTakeKing(i)}

StalemateValues(P) == {get_stalemate_count(entries, p) + 1 : p \in P}

\* the entries set to PTM wins by propagation whose parents have all been propagated
WonByPropagation ==
    {i \in CountedAtFirst :
        /\ PTM_wins(entries, i)
        /\ WinSignals(i) # {}
        /\ \A move \in ForwardMoves(i) :
              move.index \in Indices => ~needs_propagation(entries, move.index)}

\* C28: for every entry set to PTM wins by propagation the stored stalemate_cnt is the
\* minimum, over the propagated parents that signalled the win to it, of the parent's
\* stalemate_cnt + 1; stated of the table a pass of main leaves, its indices taken in
\* ascending order
C28_StalemateCntIsMinimum ==
    (pc = "while" /\ entries = for_loop(tb, square_bits, board_movements, PassFiveEntries, 5)) =>
        \A i \in WonByPropagation :
            entries[i].stalemate_cnt = Least(StalemateValues(WinSignals(i)))

\* the propagation of this step calls add_one_to_white_wins or add_one_to_black_wins on
\* its predecessors: the parent is won by its player to move
CountsDown(parent_index) ==
    /\ PTM_wins(entries, parent_index)
    /\ get_stalemate_count(entries, parent_index) < STALEMATE_COUNT

\* the entries counted down to 0 that wait for their pass: while pass N runs they hold
\* N+1, or N and lie ahead of the for loop; between passes they hold the number of the
\* pass to come, and the while loop goes on; none is left when main leaves the loop
PendingLossesAreDue ==
    \A i \in WrittenByInitializer :
        entries[i].movecnt = PNTM_WINS_PROPAGATION_NEEDED =>
            CASE pc = "for" ->
                     \/ get_mate_in_count(entries, i) = moves_to_win + 1
                     \/ get_mate_in_count(entries, i) = moves_to_win /\ i >= index
              [] pc = "while" ->
                     get_mate_in_count(entries, i) = moves_to_win /\ LoopCondition
              [] OTHER -> FALSE

\* C29: add_one_to_white_wins on a Black-to-move entry and add_one_to_black_wins on a
\* White-to-move entry whose movecnt is in 1..251 decrease movecnt by exactly one; an
\* entry that thereby reaches 0 during pass N is in the PNTM-wins-pending state with
\* mate_in_cnt N+1 and is propagated in pass N+1: it is due in that pass as long as it is
\* pending, and the pass in which it is propagated has its number
C29_CountdownEndsInPendingLoss ==
    [][Initialized =>
          /\ (Propagation /\ CountsDown(index' - 1)) =>
                 \A c \in PredecessorsOf(index' - 1) :
                     entries[c].movecnt \in 1 .. MAX_MOVECNT =>
                         /\ entries'[c].movecnt = entries[c].movecnt - 1
                         /\ entries'[c].movecnt = 0 =>
                                /\ needs_propagation(entries', c)
                                /\ PNTM_wins(entries', c)
                                /\ get_mate_in_count(entries', c) = moves_to_win + 1
          /\ (Propagation /\ entries[index' - 1].movecnt = PNTM_WINS_PROPAGATION_NEEDED) =>
                 /\ get_mate_in_count(entries, index' - 1) = moves_to_win
                 /\ entries'[index' - 1].movecnt = PNTM_WINS_PROPAGATION_DONE
          /\ PendingLossesAreDue']_vars

\* C29 witness: pass N+1 >= 3 has just propagated an entry that pass N counted down to 0:
\* every counted move of its position is quiet and leads to an entry propagated as won
\* by its player to move, the last of them in pass N
C29_Witness ==
    /\ JustPropagated
    /\ moves_to_win >= 3
    /\ entries[index - 1].movecnt = PNTM_WINS_PROPAGATION_DONE
    /\ get_mate_in_count(entries, index - 1) = moves_to_win
    /\ LostMoves(index - 1) = {move.index : move \in ForwardMoves(index - 1)}
    /\ moves_to_win - 1 \in {get_mate_in_count(entries, p) : p \in LostMoves(index - 1)}

(***************************************************************************)
(* propagate_move_within_table called once, as the for loop of main calls  *)
(* it, on a parent whose stalemate_cnt is below, at or above               *)
(* STALEMATE_COUNT.  The table is the one initialize_tablebase leaves,     *)
(* with the entry of the parent set to a win that needs propagation.       *)
(***************************************************************************)
GateConfigs == {KvK, Tablebase(<<KING, KING, ROOK>>, <<WHITE, BLACK, WHITE>>)}

\* values of an unsigned char on both sides of STALEMATE_COUNT
StalemateCounts == {0, STALEMATE_COUNT - 1, STALEMATE_COUNT, STALEMATE_COUNT + 1, UCHAR - 1}

\* the parents of these runs: the decodable indices of the table t whose kings stand
\* apart and whose other mobiles stand on the first square of the board
ParentIndices(t, sb) ==
    {i \in 0 .. (max_index(t, sb) - 1) :
        With(index_to_position(t, sb, i), LAMBDA position :
            /\ position.ok
            /\ ~Adjacent(sb, position.p.mobile_piece_position[WHITE_KING],
                         position.p.mobile_piece_position[BLACK_KING])
            /\ \A piece \in 0 .. (t.num_mobiles - 1) :
                  piece \notin {WHITE_KING, BLACK_KING} =>
                      position.p.mobile_piece_position[piece] = 0)}

InitGate ==
    /\ tb \in GateConfigs
    /\ square_bits = SquareBits
    /\ LET initialized ==
               initialize_tablebase(tb, square_bits, board_movements,
                                    [j \in 0 .. (NumEntries(tb, square_bits) - 1) |-> ZeroEntry])
       IN  \E i \in ParentIndices(tb, square_bits), stalemate_cnt \in StalemateCounts,
              movecnt \in {PTM_WINS_PROPAGATION_NEEDED, PNTM_WINS_PROPAGATION_NEEDED} :
               /\ entries = [initialized EXCEPT ![i] = Entry(movecnt, 2, stalemate_cnt)]
               /\ called = [function |-> "propagate_move_within_table", parent_index |-> i]
    /\ pc = "for"
    /\ max_moves_to_win = 1
    /\ moves_to_win = 2
    /\ progress_made = 0
    /\ index = called.parent_index
    /\ pending_at_loop_entry = {}
    /\ decoded = [ok |-> FALSE, p |-> ZeroPosition]
    /\ current_index = 0
    /\ verified = NotVerifying
    /\ threads = NoThreads
    /\ cookie = NoCookie

\* the body of the for loop of main at the index of the parent
PropagateParent ==
    /\ pc = "for"
    /\ called.function = "propagate_move_within_table"
    /\ index = called.parent_index
    /\ ToPropagate(entries, index, moves_to_win)
    /\ entries' = propagate_move_within_table(tb, square_bits, board_movements, entries,
                                              index, moves_to_win)
    /\ progress_made' = progress_made + 1
    /\ index' = index + 1
    /\ UNCHANGED <<verified, threads, called, cookie, tb, square_bits, pc, max_moves_to_win,
                   moves_to_win, pending_at_loop_entry, codec_vars>>

NextGate == PropagateParent

SpecGate == InitGate /\ [][NextGate]_vars

\* C30: if the stalemate_cnt of a parent is 100 or more when it is propagated, no
\* predecessor entry is modified by that propagation (nor any other entry but the
\* parent's), and the parent is still marked propagated
C30_StalemateGate ==
    [][(index' = index + 1 /\ get_stalemate_count(entries, index) >= 100) =>
          /\ \A i \in Indices \ {index} : entries'[i] = entries[i]
          /\ entries'[index] =
                 [entries[index] EXCEPT !.movecnt =
                     IF @ = PTM_WINS_PROPAGATION_NEEDED THEN PTM_WINS_PROPAGATION_DONE
                     ELSE PNTM_WINS_PROPAGATION_DONE]]_vars

\* C30 witness: a parent with stalemate_cnt 100 and with predecessors whose entries count
\* moves has been propagated and is marked
C30_Witness ==
    /\ called.function = "propagate_move_within_table"
    /\ index = called.parent_index + 1
    /\ get_stalemate_count(entries, called.parent_index) = STALEMATE_COUNT
    /\ entries[called.parent_index].movecnt = PTM_WINS_PROPAGATION_DONE
    /\ \E c \in PredecessorsOf(called.parent_index) :
          entries[c].movecnt \in 1 .. MAX_MOVECNT

\* C31: mark_propagated changes movecnt 252 to 254 and movecnt 0 to 253, changes nothing
\* for any other movecnt value, and never changes mate_in_cnt or stalemate_cnt; the side
\* recorded as winning at the entry is the same before and after
C31_MarkPropagatedKeepsWinner ==
    [][called.function = "mark_propagated" =>
          /\ entries'[called.index].movecnt =
                 (CASE entries[called.index].movecnt = 252 -> 254
                    [] entries[called.index].movecnt = 0 -> 253
                    [] OTHER -> entries[called.index].movecnt)
          /\ entries'[called.index].mate_in_cnt = entries[called.index].mate_in_cnt
          /\ entries'[called.index].stalemate_cnt = entries[called.index].stalemate_cnt
          /\ \A i \in Indices \ {called.index} : entries'[i] = entries[i]
          /\ does_white_win(entries', called.index) = does_white_win(entries, called.index)
          /\ does_black_win(entries', called.index) = does_black_win(entries, called.index)]_vars

\* C31 witness: mark_propagated has returned without a message from a Black-to-move entry
\* that White has won, which now holds 253
C31_Witness ==
    /\ pc = "returned"
    /\ called.function = "mark_propagated"
    /\ called.stderr = << >>
    /\ called.index % 2 = BLACK
    /\ entries[called.index].movecnt = PNTM_WINS_PROPAGATION_DONE
    /\ does_white_win(entries, called.index)

(***************************************************************************)
(* The rays of the movement table against the files and ranks of the board.*)
(***************************************************************************)
\* one step of each direction of movementdir, as <<files, ranks>>
StepOfDirection ==
    [RIGHT |-> <<1, 0>>, LEFT |-> <<-1, 0>>, UP |-> <<0, 1>>, DOWN |-> <<0, -1>>,
     DIAG_UL |-> <<-1, 1>>, DIAG_UR |-> <<1, 1>>, DIAG_DL |-> <<-1, -1>>,
     DIAG_DR |-> <<1, -1>>]

\* the squares reached from file, rank by at most `reach` steps, as long as the step stays
\* on the board, in the order of the steps
RECURSIVE SquaresAlong(_, _, _, _, _)
SquaresAlong(sb, file, rank, step, reach) ==
    LET next_file == file + step[1]
        next_rank == rank + step[2]
    IN  IF reach = 0
           \/ next_file < 0 \/ next_file >= Files(sb)
           \/ next_rank < 0 \/ next_rank >= NUM_SQUARES(sb) \div Files(sb)
        THEN << >>
        ELSE <<next_rank * Files(sb) + next_file>>
             \o SquaresAlong(sb, next_file, next_rank, step, reach - 1)

\* the squares of direction dir of a king, queen, rook or bishop from a square
SquaresOfRay(sb, piece_type, from, dir) ==
    SquaresAlong(sb, FileOf(sb, from), RankOf(sb, from),
                 StepOfDirection[movementdir[piece_type + 1][dir + 1]],
                 maximum_movements_in_one_direction[piece_type + 1])

\* C32: for King, Queen, Rook and Bishop, every origin square and every direction, the
\* non-sentinel entries of the ray are exactly the squares obtained by stepping in that
\* direction from the origin while the step stays on the board (at most one step for the
\* King), in that order, each with the single-bit mask of its square, followed by a
\* sentinel with square -1 and the all-ones mask; no ray contains its origin and no
\* destination square appears in two rays of the same origin
C32_RaysFollowTheBoard ==
    verified.piece \in {KING, QUEEN, ROOK, BISHOP} =>
        \A dir \in 0 .. (number_of_movement_directions[verified.piece + 1] - 1) :
            With(board_movements[verified.piece][verified.squareA][dir], LAMBDA ray :
                With(SquaresOfRay(square_bits, verified.piece, verified.squareA, dir),
                     LAMBDA squares :
                         /\ \A m \in 1 .. Len(squares) :
                               ray[m] = [square |-> squares[m], vector |-> {squares[m]}]
                         /\ \A m \in (Len(squares) + 1)
                                       .. (maximum_movements_in_one_direction
                                               [verified.piece + 1] + 1) :
                               ray[m] = [square |-> -1, vector |-> 0 .. 63]
                         /\ \A m \in 1 .. Len(squares) : ray[m].square # verified.squareA
                         /\ \A other \in 0 .. (number_of_movement_directions
                                                   [verified.piece + 1] - 1) :
                               other # dir =>
                                   \A m \in 1 .. Len(squares) :
                                       ray[m].square \notin
                                           RayDestinations(board_movements[verified.piece]
                                                               [verified.squareA][other])))

\* C32 witness: on the board of 64 squares a queen's ray from squareA runs over three
\* squares or more to squareB, and verify_movements has found that move
C32_Witness ==
    /\ pc = "verified"
    /\ square_bits = SQUARE_BITS
    /\ verified.piece = QUEEN
    /\ verified.movement_possible
    /\ \E dir \in 0 .. (number_of_movement_directions[QUEEN + 1] - 1) :
          With(board_movements[QUEEN][verified.squareA][dir], LAMBDA ray :
              /\ FirstSentinel(ray) > 3
              /\ ray[FirstSentinel(ray) - 1].square = verified.squareB
              /\ movementdir[QUEEN + 1][dir + 1] = "DIAG_UL")

\* C33: get_mate_in_count(index) returns -1 exactly when neither does_white_win(index)
\* nor does_black_win(index) holds, ILLEGAL entries included, and returns the stored
\* mate_in_cnt otherwise
C33_MinusOneWhenNoMate ==
    (pc = "returned" /\ called.function = "get_mate_in_count") =>
        IF does_white_win(entries, called.index) \/ does_black_win(entries, called.index)
        THEN called.returned = entries[called.index].mate_in_cnt
        ELSE called.returned = -1

\* what holds of get_mate_in_count: the claim at every entry that is not ILLEGAL, and the
\* stored mate_in_cnt at an ILLEGAL one
C33_MinusOneWhenCountingMoves ==
    (pc = "returned" /\ called.function = "get_mate_in_count") =>
        IF entries[called.index].movecnt \in 1 .. MAX_MOVECNT
        THEN called.returned = -1
        ELSE called.returned = entries[called.index].mate_in_cnt

\* the indices the quiet moves counted at a decodable index i lead to
QuietMoves(i) == {move.index : move \in {m \in ForwardMoves(i) : ~m.capture}}

\* the indices the captures counted at a decodable index i lead to
Captures(i) == {move.index : move \in {m \in ForwardMoves(i) : m.capture}}

\* the indices propagate_move_within_table computes for a parent, in the order of its loops
PredecessorSequence(parent_index) ==
    predecessor_indices(tb, square_bits, board_movements,
                        index_to_position(tb, square_bits, parent_index).p, 0, 0)

PropagationDone == {PTM_WINS_PROPAGATION_DONE, PNTM_WINS_PROPAGATION_DONE}

\* C35: every index is propagated at most once over the whole build: once
\* propagate_move_within_table has run for an index, needs_propagation is false for it in
\* every later state.  The index propagated needed propagation and is marked when the
\* call returns, and no step takes the mark off an entry
C35_PropagatedOnce ==
    [][Initialized =>
          /\ Propagation =>
                 /\ needs_propagation(entries, index' - 1)
                 /\ entries'[index' - 1].movecnt \in PropagationDone
          /\ \A i \in Indices :
                 entries[i].movecnt \in PropagationDone =>
                     /\ entries'[i].movecnt = entries[i].movecnt
                     /\ ~needs_propagation(entries', i)]_vars

\* C35 witness: the propagation just made, in pass 2 or later, has called on a
\* predecessor that was propagated before, and that entry still holds its mark
C35_Witness ==
    /\ JustPropagated
    /\ moves_to_win >= 2
    /\ entries[index - 1].movecnt \in PropagationDone
    /\ \E c \in PredecessorsOf(index - 1) :
          /\ entries[c].movecnt \in PropagationDone
          /\ get_mate_in_count(entries, c) < moves_to_win

\* the mate_in_cnt of a win state is even where the winner is to move and odd where the
\* loser is to move
ParityOfWin(i) ==
    /\ PTM_wins(entries, i) => entries[i].mate_in_cnt % 2 = 0
    /\ PNTM_wins(entries, i) => entries[i].mate_in_cnt % 2 = 1

\* C36: in every state of a build without futurebase import, every entry in a win state
\* has mate_in_cnt even if the winning side is to move at that index and odd if the
\* losing side is to move
C36_MateInParity ==
    Initialized => \A i \in Indices : ParityOfWin(i)

\* C36 at the entries the loop of initialize_tablebase writes: there the parity holds in
\* every state from initialization on
C36_MateInParityWhereInitialized ==
    Initialized => \A i \in WrittenByInitializer : ParityOfWin(i)

\* the finished table holds wins of both parities above 1 at entries the initializer wrote
C36_BothParitiesReached ==
    /\ pc = "done"
    /\ \E i \in WrittenByInitializer : PTM_wins(entries, i) /\ entries[i].mate_in_cnt >= 4
    /\ \E i \in WrittenByInitializer : PNTM_wins(entries, i) /\ entries[i].mate_in_cnt >= 3

(***************************************************************************)
(* What a step of the build prints on stderr besides the two lines of main *)
(* that report a pass ("Pass %d starts with %d", "Pass %d complete; ..."). *)
(***************************************************************************)
\* what the update of one predecessor entry prints, lines 1181-1228
propagate_to_index_stderr(table, parent_index, parent_side_to_move, child) ==
    LET mate_in_count == get_mate_in_count(table, parent_index) + 1
        gate == get_stalemate_count(table, parent_index) < STALEMATE_COUNT
    IN  IF parent_side_to_move = WHITE
        THEN IF does_white_win(table, parent_index)
             THEN IF gate
                  THEN add_one_to_side_wins_stderr(table, child, WHITE, mate_in_count)
                  ELSE << >>
             ELSE IF does_black_win(table, parent_index)
                  THEN IF gate THEN side_wins_stderr(table, child, BLACK, mate_in_count)
                       ELSE << >>
                  ELSE << >>
        ELSE IF does_black_win(table, parent_index)
             THEN IF gate
                  THEN add_one_to_side_wins_stderr(table, child, BLACK, mate_in_count)
                  ELSE << >>
             ELSE IF does_white_win(table, parent_index)
                  THEN IF gate THEN side_wins_stderr(table, child, WHITE, mate_in_count)
                       ELSE << >>
                  ELSE << >>

\* what the updates of the predecessor entries indices[k], indices[k+1], ... print, each
\* made on the table the updates before it have left
RECURSIVE propagate_to_indices_stderr(_, _, _, _, _)
propagate_to_indices_stderr(table, parent_index, parent_side_to_move, indices, k) ==
    IF k > Len(indices) THEN << >>
    ELSE propagate_to_index_stderr(table, parent_index, parent_side_to_move, indices[k])
         \o propagate_to_indices_stderr(
                propagate_to_index(table, parent_index, parent_side_to_move, indices[k]),
                parent_index, parent_side_to_move, indices, k + 1)

\* what propagate_move_within_table prints when main calls it on the table of the state
propagate_move_within_table_stderr(parent_index, mate_in_count) ==
    (IF get_mate_in_count(entries, parent_index) # mate_in_count
     THEN <<"Mate-in counts don't match: %d %d">> ELSE << >>)
    \o (IF ~does_white_win(entries, parent_index) /\ ~does_black_win(entries, parent_index)
        THEN <<"Propagating position %d where neither side wins?!">> ELSE << >>)
    \o mark_propagated_stderr(entries, parent_index)
    \o propagate_to_indices_stderr(mark_propagated(entries, parent_index), parent_index,
                                   parent_index % 2, PredecessorSequence(parent_index), 1)

\* what the body of the loop of initialize_tablebase prints for one index: the two
\* initialize_index_with_*_mated functions test the side to move, and the one for a mated
\* White calls black_wins on the entry it has written
initialize_index_stderr(i) ==
    With(index_to_position(tb, square_bits, i), LAMBDA position_of_i :
        IF ~position_of_i.ok THEN << >>
        ELSE IF ~count_moves(tb, board_movements, position_of_i.p, 0, 0, 0).mated THEN << >>
        ELSE IF position_of_i.p.side_to_move = WHITE
             THEN IF BLACK_TO_MOVE(i)
                  THEN <<"initialize_index_with_black_mated in a black to move position!">>
                  ELSE << >>
             ELSE (IF WHITE_TO_MOVE(i)
                   THEN <<"initialize_index_with_white_mated in a white to move position!">>
                   ELSE << >>)
                  \o side_wins_stderr(initialize_index_with_black_mated(entries, i), i, BLACK, 0))

\* C37: during a complete build (initialization followed by the propagation loop) no
\* diagnostic branch is ever taken: no call reports a mate-in count that dropped, a win at
\* an entry already won by the other side, an add_one_* on an already won entry or on the
\* wrong side to move, a propagation of a completed or unresolved entry, or a mismatch
\* between the pass number and the parent's mate-in count
C37_NoDiagnostic ==
    [][/\ (pc = "initialize_tablebase" /\ pc' = "futurebases") =>
              \A i \in WrittenByInitializer : Len(initialize_index_stderr(i)) = 0
       /\ Propagation =>
              Len(propagate_move_within_table_stderr(index' - 1, moves_to_win)) = 0]_vars

\* C37 witness: the propagation just made was of a loss of the side to move, and one of
\* the calls of white_wins or black_wins it made was on an entry that side had won with
\* a smaller mate-in count: the call compared the counts and wrote nothing
C37_Witness ==
    /\ JustPropagated
    /\ entries[index - 1].movecnt = PNTM_WINS_PROPAGATION_DONE
    /\ \E c \in PredecessorsOf(index - 1) :
          /\ PTM_wins(entries, c)
          /\ entries[c].mate_in_cnt < entries[index - 1].mate_in_cnt + 1

\* the entries a finished build has left counting moves
LeftCounting == {i \in Indices : entries[i].movecnt \in 1 .. MAX_MOVECNT}

\* the count the initializer wrote at a decodable index at which no king can be taken
InitialMoveCount(i) ==
    count_moves(tb, board_movements, index_to_position(tb, square_bits, i).p, 0, 0, 0).movecnt

\* the quiet moves counted at index i that lead into an entry the opponent of the mover,
\* who is to move there, has won
QuietMovesLost(i) == {q \in QuietMoves(i) : PTM_wins(entries, q)}

\* C38: the final table is a fixed point: after the build, no entry left in the counting
\* range 1..251 has a quiet forward move into an entry recorded as won by the side making
\* that move, and every such entry's movecnt equals its initial move count minus the
\* number of its quiet forward moves that lead into entries won by the opponent
C38_FixedPoint ==
    pc = "done" =>
        \A i \in LeftCounting :
            /\ Decodable(i)
            /\ \A q \in QuietMoves(i) : ~PNTM_wins(entries, q)
            /\ entries[i].movecnt = InitialMoveCount(i) - Cardinality(QuietMovesLost(i))

\* C38 witness: a finished table with an entry left counting that has been counted down
\* for two or more lost moves and has a quiet move into an entry that is no win
C38_Witness ==
    /\ pc = "done"
    /\ \E i \in LeftCounting :
          /\ Cardinality(QuietMovesLost(i)) >= 2
          /\ \E q \in QuietMoves(i) : entries[q].movecnt \in 1 .. MAX_MOVECNT

\* the entries one counted move, quiet or capturing, after a decodable index i
SuccessorEntries(i) == {move.index : move \in ForwardMoves(i)} \cap Indices

\* the successor entries of i won by the side to move at i, which is not to move there
SuccessorsWonByMover(i) == {q \in SuccessorEntries(i) : PNTM_wins(entries, q)}

\* C39: after the build, every entry won with mate_in_cnt M > 0 stores the exact distance
\* over its successors: if the winner is to move, M = 1 + the minimum mate_in_cnt over its
\* successor entries won by that side; if the loser is to move, M = 1 + the maximum
\* mate_in_cnt over all its successor entries
C39_ExactDistance ==
    pc = "done" =>
        \A i \in Indices :
            (entries[i].movecnt \in WinStates /\ entries[i].mate_in_cnt > 0) =>
                /\ Decodable(i)
                /\ PTM_wins(entries, i) =>
                       /\ SuccessorsWonByMover(i) # {}
                       /\ entries[i].mate_in_cnt =
                              1 + Least({entries[q].mate_in_cnt : q \in SuccessorsWonByMover(i)})
                /\ PNTM_wins(entries, i) =>
                       /\ SuccessorEntries(i) # {}
                       /\ entries[i].mate_in_cnt =
                              1 + Greatest({entries[q].mate_in_cnt : q \in SuccessorEntries(i)})

\* C39 witness: the finished table holds an entry won by the player to move whose won
\* successors differ in mate_in_cnt, and one lost by the player to move, in 3 or more,
\* whose successors differ in mate_in_cnt
C39_Witness ==
    /\ pc = "done"
    /\ \E i \in Indices :
          /\ PTM_wins(entries, i)
          /\ entries[i].mate_in_cnt > 0
          /\ Cardinality({entries[q].mate_in_cnt : q \in SuccessorsWonByMover(i)}) >= 2
    /\ \E i \in Indices :
          /\ PNTM_wins(entries, i)
          /\ entries[i].mate_in_cnt >= 3
          /\ Cardinality({entries[q].mate_in_cnt : q \in SuccessorEntries(i)}) >= 2

(***************************************************************************)
(* url_fopen.c: one handle from url_open to url_close.  The transfer is    *)
(* libcurl's: what curl_multi_perform delivers (bytes handed to            *)
(* write_callback, bytes taken by read_callback, still_running) is chosen  *)
(* from small sets.  The caller uses url_read on a handle opened for       *)
(* reading and url_write on one opened for writing, as the tables          *)
(* read_functions and write_functions do, and url_seek on either.          *)
(***************************************************************************)
\* the most bytes a call asks for or one transfer step delivers
MaxData == 2

\* the most bytes the buffer of the cookie holds
MaxBuffer == 3

\* the most calls of url_read, url_write and url_seek on the handle
MaxCalls == 3

SEEK_SET == 0

\* write_callback: size bytes arrive, the buffer grows by realloc to hold them
write_callback(c, size) ==
    LET rembuff == c.buffer_len - c.buffer_pos
    IN  [c EXCEPT !.buffer_len = IF size > rembuff THEN @ + (size - rembuff) ELSE @,
                  !.buffer = IF size > rembuff THEN "allocated" ELSE @,
                  !.buffer_pos = @ + size]

\* use_buffer
use_buffer(c, want) ==
    IF c.buffer_pos - want <= 0
    THEN [c EXCEPT !.buffer = "NULL", !.buffer_pos = 0, !.buffer_len = 0]
    ELSE [c EXCEPT !.buffer_pos = @ - want]

\* start_cookie: the first curl_multi_perform of a read hands `arrived` bytes to
\* write_callback and leaves still_running at `running`
start_cookie(c, arrived, running) ==
    IF c.operation \notin {"r", "w", "a"}
    THEN [cookie |-> c, returned |-> -1]
    ELSE With([c EXCEPT !.curl = "live", !.multi_handle = "live", !.still_running = 1],
              LAMBDA started :
                  IF started.operation = "r"
                  THEN With([write_callback(started, arrived) EXCEPT !.still_running = running],
                            LAMBDA fetched :
                                IF fetched.buffer_pos = 0 /\ fetched.still_running = 0
                                THEN [cookie |-> [fetched EXCEPT !.curl = "cleaned",
                                                                 !.multi_handle = "cleaned",
                                                                 !.URL = "freed",
                                                                 !.memory = "freed"],
                                      returned |-> -1]
                                ELSE [cookie |-> fetched, returned |-> 0])
                  ELSE [cookie |-> started, returned |-> 0])

\* url_open: NULL when the operation is not r, w or a, when a malloc fails and when
\* start_cookie fails
url_open(operation, cookie_malloc, URL_malloc, arrived, running) ==
    IF operation \notin {"r", "w", "a"} THEN [cookie |-> NoCookie, returned |-> "NULL"]
    ELSE IF ~cookie_malloc THEN [cookie |-> NoCookie, returned |-> "NULL"]
    ELSE IF ~URL_malloc
         THEN [cookie |-> [NoCookie EXCEPT !.memory = "allocated"], returned |-> "NULL"]
    ELSE With(start_cookie([NoCookie EXCEPT !.memory = "allocated", !.URL = "allocated",
                                            !.operation = operation],
                           arrived, running),
              LAMBDA started :
                  [cookie |-> started.cookie,
                   returned |-> IF started.returned = -1 THEN "NULL" ELSE "cookie"])

\* url_seekptr and url_seek: only a rewind is supported
url_seek(c, position, whence, arrived, running) ==
    IF whence # SEEK_SET \/ position # 0
    THEN [cookie |-> c, returned |-> -1]
    ELSE With(start_cookie([c EXCEPT !.curl = "cleaned", !.multi_handle = "cleaned",
                                     !.still_running = 0, !.buffer_pos = 0],
                           arrived, running),
              LAMBDA started :
                  [cookie |-> started.cookie,
                   returned |-> IF started.returned = -1 THEN -1 ELSE position])

\* fill_buffer: the loop ends when the transfer has stopped or the buffer holds `want`
fill_buffer(c, want, arrived, running) ==
    IF c.still_running = 0 \/ c.buffer_pos > want THEN c
    ELSE [write_callback(c, arrived) EXCEPT !.still_running = running]

\* url_read
url_read(c, size, arrived, running) ==
    With(fill_buffer(c, size, arrived, running), LAMBDA filled :
        IF filled.buffer_pos = 0
        THEN [cookie |-> filled, returned |-> 0]
        ELSE With(IF filled.buffer_pos < size THEN filled.buffer_pos ELSE size, LAMBDA want :
                 [cookie |-> use_buffer(filled, want), returned |-> want]))

\* url_write: read_callback takes `sent` of the size bytes
url_write(c, size, sent, running) ==
    IF c.still_running = 0 THEN [cookie |-> c, returned |-> -1]
    ELSE [cookie |-> [c EXCEPT !.buffer = "NULL", !.buffer_len = size - sent,
                               !.still_running = running],
          returned |-> sent]

\* url_close: a write or append waits for the transfer to end, or leaves the loop with
\* ret = -1 on a select error
url_close(c, select_error) ==
    LET waits == c.operation # "r" /\ c.still_running # 0
    IN  [cookie |-> [c EXCEPT !.still_running = IF waits /\ ~select_error THEN 0 ELSE @,
                              !.curl = "cleaned", !.multi_handle = "cleaned",
                              !.buffer = "NULL", !.memory = "freed"],
         returned |-> IF waits /\ select_error THEN -1 ELSE 0]

\* the accesses to the struct a call makes whatever the struct holds
AccessesOf(function) ==
    CASE function = "url_read" -> {"read"}
      [] function = "url_write" -> {"read"}
      [] function = "url_seek" -> {"read", "written"}
      [] function = "url_close" -> {"read", "freed"}

\* a call on a cookie that has been freed: the struct is read, and what follows is
\* undefined: the call returns something, or the process is stopped
OnFreedCookie(function) ==
    /\ cookie.memory = "freed"
    /\ cookie' = [cookie EXCEPT !.after_free = @ \cup AccessesOf(function)]
    /\ \E returned \in {-1, 0} :
           called' = [function |-> function, returned |-> returned, calls |-> called.calls + 1]
    /\ pc' \in {"url_undefined", IF function = "url_close" THEN "url_closed" ELSE "url_opened"}

\* the variables of the build, which a run of url_fopen.c leaves alone
build_vars ==
    <<tb, square_bits, entries, max_moves_to_win, moves_to_win, progress_made, index,
      pending_at_loop_entry, codec_vars, verified, threads>>

InitUrl ==
    /\ tb = KvK
    /\ square_bits = SquareBits
    /\ entries = << >>
    /\ pc = "url_open"
    /\ max_moves_to_win = 0
    /\ moves_to_win = 0
    /\ progress_made = 0
    /\ index = 0
    /\ pending_at_loop_entry = {}
    /\ decoded = [ok |-> FALSE]
    /\ current_index = 0
    /\ verified = NotVerifying
    /\ threads = NoThreads
    /\ cookie = NoCookie
    /\ called = [function |-> "none", returned |-> 0, calls |-> 0]

UrlOpen ==
    /\ pc = "url_open"
    /\ \E operation \in {"r", "w", "a", "x"}, cookie_malloc \in BOOLEAN, URL_malloc \in BOOLEAN,
          arrived \in 0 .. MaxData, running \in {0, 1} :
          \E opened \in {url_open(operation, cookie_malloc, URL_malloc, arrived, running)} :
              /\ cookie' = opened.cookie
              /\ called' = [function |-> "url_open", returned |-> opened.returned, calls |-> 0]
              /\ pc' = IF opened.returned = "NULL" THEN "url_closed" ELSE "url_opened"
    /\ UNCHANGED build_vars

UrlRead ==
    /\ pc = "url_opened"
    /\ cookie.operation = "r"
    /\ called.calls < MaxCalls
    /\ cookie.memory = "allocated"
    /\ \E size \in 1 .. MaxData, arrived \in 0 .. MaxData, running \in {0, 1} :
          /\ cookie.buffer_pos + arrived <= MaxBuffer
          /\ running = 0 \/ cookie.buffer_pos + arrived >= size
          /\ \E read \in {url_read(cookie, size, arrived, running)} :
                /\ cookie' = read.cookie
                /\ called' = [function |-> "url_read", returned |-> read.returned,
                              calls |-> called.calls + 1]
    /\ UNCHANGED <<pc, build_vars>>

UrlWrite ==
    /\ pc = "url_opened"
    /\ cookie.operation \in {"w", "a"}
    /\ called.calls < MaxCalls
    /\ cookie.memory = "allocated"
    /\ \E size \in 1 .. MaxData, running \in {0, 1} : \E sent \in 0 .. size :
          \E written \in {url_write(cookie, size, sent, running)} :
              /\ cookie' = written.cookie
              /\ called' = [function |-> "url_write", returned |-> written.returned,
                            calls |-> called.calls + 1]
    /\ UNCHANGED <<pc, build_vars>>

UrlSeek ==
    /\ pc = "url_opened"
    /\ called.calls < MaxCalls
    /\ cookie.memory = "allocated"
    /\ \E position \in {0, 1}, whence \in {SEEK_SET, SEEK_SET + 1},
          arrived \in 0 .. MaxData, running \in {0, 1} :
          \E sought \in {url_seek(cookie, position, whence, arrived, running)} :
              /\ cookie' = sought.cookie
              /\ called' = [function |-> "url_seek", returned |-> sought.returned,
                            calls |-> called.calls + 1]
    /\ UNCHANGED <<pc, build_vars>>

UrlClose ==
    /\ pc = "url_opened"
    /\ cookie.memory = "allocated"
    /\ \E select_error \in BOOLEAN :
          \E closed \in {url_close(cookie, select_error)} :
              /\ cookie' = closed.cookie
              /\ called' = [function |-> "url_close", returned |-> closed.returned,
                            calls |-> called.calls + 1]
    /\ pc' = "url_closed"
    /\ UNCHANGED build_vars

\* the functions the caller uses on its handle
FunctionsOfHandle ==
    IF cookie.operation = "r" THEN {"url_read", "url_seek", "url_close"}
    ELSE {"url_write", "url_seek", "url_close"}

\* the caller, who holds the pointer still, calls a function on a cookie that has been
\* freed
CallOnFreedCookie ==
    /\ pc = "url_opened"
    /\ \E function \in FunctionsOfHandle :
          /\ function = "url_close" \/ called.calls < MaxCalls
          /\ OnFreedCookie(function)
    /\ UNCHANGED build_vars

NextUrl ==
    \/ UrlOpen
    \/ UrlRead
    \/ UrlWrite
    \/ UrlSeek
    \/ UrlClose
    \/ CallOnFreedCookie

SpecUrl == InitUrl /\ [][NextUrl]_vars

\* C40: in every sequence of url_open, url_read, url_write, url_seek and url_close on one
\* handle, the cookie is never read, written or freed after it has been freed; in
\* particular a rewind (url_seek to offset 0) that fails to restart the transfer leaves
\* the cookie valid for the later url_close
C40_CookieNotUsedAfterFree ==
    /\ cookie.after_free = {}
    /\ (pc = "url_opened" /\ called.function = "url_seek" /\ called.returned = -1) =>
           cookie.memory = "allocated"

\* C40 where it holds: while the caller holds the handle the only call that frees the
\* cookie is a rewind whose start_cookie fails, and until then every call finds the
\* cookie allocated
C40_OnlyFailedRewindFreesOpenCookie ==
    [][(pc = "url_opened" /\ pc' = "url_opened" /\ cookie.memory = "allocated"
            /\ cookie'.memory = "freed") =>
           (called'.function = "url_seek" /\ called'.returned = -1)]_vars

\* the failing sequence has happened: a rewind has failed and url_close has been called
\* on the handle afterwards
C40_ClosedAfterFailedRewind ==
    /\ pc = "url_closed"
    /\ called.function = "url_close"
    /\ "freed" \in cookie.after_free

====
